---- MODULE Spec2Model ----
(***************************************************************************)
(* A model of exekall's engine (tools/exekall/exekall/engine.py): the      *)
(* expression builder (ExpressionWrapper.build_expr_list), the             *)
(* deduplication pass (Expression._prepare_exec), the lazy execution       *)
(* engine (Expression._execute, ExprValue.expr_val_product) and the value  *)
(* store (ExprValueSeq.iter_expr_val).                                     *)
(*                                                                         *)
(* Python generators are modelled as frames kept in a heap (gens).  The    *)
(* chain of generators that are running (each one inside a next() call of  *)
(* the one below it) is the sequence stack; ret is what the last           *)
(* generator that yielded or returned handed to its caller.                *)
(***************************************************************************)
EXTENDS Integers, Sequences, FiniteSets, TLC

VARIABLES
    scn,        \* the scenario (the Expression graph and operator pool in use)
    phase,      \* where the driver of the engine is
    exprs,      \* heap of Expression objects: [op, pm, result_list]
    dicts,      \* heap of param_map dictionaries: parameter position -> Expression
    wrappers,   \* expr_wrapper_list: the Expression each top-level wrapper holds
    gens,       \* heap of generator frames
    stack,      \* the generators that are running, innermost last
    ret,        \* what the generator that ran last handed to its caller
    vals,       \* heap of ExprValue objects
    seqs,       \* heap of ExprValueSeq objects
    calls,      \* log of the invocations of operator callables
    runs,       \* the executions started by the driver: [root, g]
    crashed,    \* an exception left the engine
    bpool,      \* builder: the operator pool, compatibility map and policies
    built       \* builder: what build_expr_list returned

execVars == <<scn, phase, exprs, dicts, wrappers, gens, stack, ret, vals, seqs,
              calls, runs, crashed>>
buildVars == <<bpool, built>>
vars == <<scn, phase, exprs, dicts, wrappers, gens, stack, ret, vals, seqs,
          calls, runs, crashed, bpool, built>>

----------------------------------------------------------------------------
(* Bounds of the model *)

\* largest number of values a multi-valued operator callable yields
MaxYield == 2
\* number of iterators of one ExprValueSeq that are interleaved
MaxIter == 2
\* number of entries the iterator behind one ExprValueSeq can produce
MaxEntries == 4
\* number of executions of a root started after the batch has been executed
MaxReexec == 1

----------------------------------------------------------------------------
(* Values *)

\* The NoValue singleton
NoValue == 0

\* An exception raised by an operator callable: an instance of Exception,
\* the class the handlers of generator_wrapper catch
SomeException == 1

\* A value that is equal to no other value (an object without __eq__),
\* named after the ExprValue that holds it
FreshValue(valId) == -valId

Range(s) == {s[i] : i \in 1..Len(s)}

IsPrefix(s, t) == Len(s) <= Len(t) /\ SubSeq(t, 1, Len(s)) = s

----------------------------------------------------------------------------
(* Operators (class Operator).  An operator is named by its callable. *)

\* kind: "func" (plain callable), "gen" (is_genfunc), "prebuilt"
\* (PrebuiltOperator), "internal" (Operator(Consumer), Operator(ExprData))
\* outs: the values the callable may produce; {} stands for a fresh object
\* raises: whether the callable may raise
OpTable ==
    [ gen_s  |-> [kind |-> "gen", outs |-> {1, 2},   raises |-> TRUE],
      gen_q  |-> [kind |-> "gen", outs |-> {1},       raises |-> TRUE],
      mk_a   |-> [kind |-> "func", outs |-> {},        raises |-> TRUE],
      mk_b   |-> [kind |-> "func", outs |-> {},        raises |-> FALSE],
      mk_c   |-> [kind |-> "func", outs |-> {},        raises |-> FALSE],
      mk_x   |-> [kind |-> "func", outs |-> {},        raises |-> FALSE],
      mk_y   |-> [kind |-> "func", outs |-> {},        raises |-> FALSE],
      mk_r   |-> [kind |-> "func", outs |-> {},        raises |-> FALSE],
      mk_xn  |-> [kind |-> "func", outs |-> {},        raises |-> FALSE],
      mk_w   |-> [kind |-> "func", outs |-> {},        raises |-> FALSE],
      mk_n   |-> [kind |-> "func", outs |-> {},        raises |-> TRUE],
      gen_t  |-> [kind |-> "gen", outs |-> {3},       raises |-> TRUE],
      gen_i  |-> [kind |-> "gen", outs |-> {1},       raises |-> TRUE],
      gen_n  |-> [kind |-> "gen", outs |-> {4},       raises |-> TRUE],
      mk_p   |-> [kind |-> "func", outs |-> {},        raises |-> FALSE],
      mk_q   |-> [kind |-> "func", outs |-> {},        raises |-> FALSE],
      mk_u   |-> [kind |-> "func", outs |-> {},        raises |-> FALSE],
      Consumer |-> [kind |-> "internal", outs |-> {},  raises |-> FALSE],
      ExprData |-> [kind |-> "internal", outs |-> {},  raises |-> FALSE],
      pre_v  |-> [kind |-> "prebuilt", outs |-> {},    raises |-> FALSE],
      pre_e  |-> [kind |-> "prebuilt", outs |-> {},    raises |-> FALSE],
      pre_n  |-> [kind |-> "prebuilt", outs |-> {},    raises |-> FALSE],
      make_int |-> [kind |-> "func", outs |-> {},       raises |-> FALSE],
      add_one  |-> [kind |-> "func", outs |-> {},       raises |-> FALSE],
      show     |-> [kind |-> "func", outs |-> {},       raises |-> FALSE] ]

\* the operators whose callable computes its value from its arguments
Computing == {"make_int", "add_one", "show"}

\* str(x) for an int x: the string of its decimal digits, kept as a number
\* that is equal to no int the callables handle
StrOf(x) == 1000 + x

\* self.callable_(*args, **kwargs) for the operators of Computing:
\* make_int() is 5, add_one(x) is x + 1, show(x) is str(x)
Call(o, args) ==
    CASE o = "make_int" -> 5
      [] o = "add_one" -> args[1] + 1
      [] OTHER -> StrOf(args[1])

OpKind(o) == OpTable[o].kind

\* the operators whose Operator.reusable is False
NonReusable == {"mk_n", "gen_n", "Consumer", "ExprData", "pre_n"}

\* Operator.reusable
OpReusable(o) == o \notin NonReusable

\* self.obj_list of a PrebuiltOperator
ObjList(o) == IF o = "pre_v" THEN <<7, 8>> ELSE <<>>

\* None, as a value
NoneValue == 3000

\* the callable of an operator, as a value (a function object, equal to
\* itself only)
CallableValue(o) ==
    LET names == <<"gen_s", "gen_q", "gen_t", "gen_i", "gen_n", "mk_a", "mk_b", "mk_c",
                   "mk_x", "mk_y", "mk_r", "mk_xn", "mk_w", "mk_n", "mk_p",
                   "mk_q", "mk_u", "make_int", "add_one", "show", "Consumer",
                   "ExprData", "pre_v", "pre_e", "pre_n">>
    IN  NoneValue + (CHOOSE i \in 1..Len(names) : names[i] = o)

\* the data object of the Expression constructed d-th, as a value
DataValue(d) == 2000 + d

----------------------------------------------------------------------------
(* Heap objects *)

\* An ExprValue whose excep attribute is given its value
ExprValueBoth(e, pmap, value, excep, s) ==
    [expr |-> e, param_expr_val_map |-> pmap, value |-> value, excep |-> value,
     seq |-> s]

\* ExprValue.__init__
ExprValue(e, pmap, value, excep, s) ==
    [expr |-> e, param_expr_val_map |-> pmap, value |-> value, excep |-> excep,
     seq |-> s]

\* A generator object that has not run yet
EmptyFrame ==
    [kind |-> "none", pc |-> "start", e |-> 0, cs |-> <<>>, s |-> 0,
     idx |-> 0, vll |-> 0, slice |-> <<>>,
     gl |-> <<>>, sub |-> 0, fg |-> TRUE, vl |-> <<>>, cur |-> 0,
     b |-> <<>>, ng |-> <<>>, ni |-> 0, it |-> 0, yl |-> <<>>]

\* The state the engine works on, as one record
Mach ==
    [gens |-> gens, stack |-> stack, ret |-> ret, vals |-> vals, seqs |-> seqs,
     exprs |-> exprs, calls |-> calls, crashed |-> crashed]

SetMach(m) ==
    /\ gens' = m.gens
    /\ stack' = m.stack
    /\ ret' = m.ret
    /\ vals' = m.vals
    /\ seqs' = m.seqs
    /\ exprs' = m.exprs
    /\ calls' = m.calls
    /\ crashed' = m.crashed

NoRet == [k |-> "none", v |-> <<>>]

Top(m) == m.stack[Len(m.stack)]

Pop(st) == SubSeq(st, 1, Len(st) - 1)

\* next(h), called by the running generator (or by the driver)
CallNext(m, h) == [m EXCEPT !.stack = Append(@, h), !.ret = NoRet]

\* the running generator g yields item (a sequence of ExprValue) and is
\* left suspended as frame f
Yield(m, g, f, item) ==
    [m EXCEPT !.gens[g] = [f EXCEPT !.yl = Append(@, item)],
              !.stack = Pop(@),
              !.ret = [k |-> "val", v |-> item]]

\* the running generator g returns (StopIteration)
Return(m, g, f) ==
    [m EXCEPT !.gens[g] = [f EXCEPT !.pc = "done"],
              !.stack = Pop(@),
              !.ret = [k |-> "stop", v |-> <<>>]]

----------------------------------------------------------------------------
(* The iterator behind an ExprValueSeq *)

\* One item of the iterator: ((value, value_uuid), (excep, excep_uuid)).
\* fresh: the value is a new object, equal to no other
Entry(value, excep, fresh) == [value |-> value, excep |-> excep, fresh |-> fresh]

NoStep == [t |-> "none", v |-> NoValue]

\* largest number of values the callable of a multi-valued operator yields
OpMaxYield(o) == IF o = "gen_q" THEN MaxEntries ELSE MaxYield

\* What the callable of operator o can do when it is run (or resumed, for
\* a generator function) with arguments args: return or yield one of its
\* values, end, or raise
CallableSteps(o, src, args) ==
    LET outs == OpTable[o].outs
        rets == IF o \in Computing THEN {[t |-> "value", v |-> Call(o, args)]}
                ELSE IF outs = {} THEN {[t |-> "fresh", v |-> NoValue]}
                ELSE {[t |-> "value", v |-> x] : x \in outs}
        exc == IF OpTable[o].raises THEN {[t |-> "raise", v |-> NoValue]} ELSE {}
    IN  IF src.fin \/ src.kind # "op" \/ OpKind(o) = "prebuilt" THEN {NoStep}
        ELSE IF OpKind(o) = "gen"
             THEN (IF src.n < OpMaxYield(o) THEN rets ELSE {})
                  \cup {[t |-> "end", v |-> NoValue]} \cup exc
             ELSE rets \cup exc

\* genf() without its try/except: an exception raised by the callable
\* leaves the iterator
generator_wrapper_nocatch(o, src, c) ==
    IF c.t = "raise"
    THEN [src |-> [src EXCEPT !.fin = TRUE, !.started = TRUE], has |-> FALSE,
          entry |-> Entry(NoValue, SomeException, FALSE), exc |-> TRUE]
    ELSE IF c.t = "end"
    THEN IF src.n = 0
         THEN [src |-> [src EXCEPT !.fin = TRUE, !.started = TRUE], has |-> TRUE,
               entry |-> Entry(NoValue, NoValue, FALSE), exc |-> FALSE]
         ELSE [src |-> [src EXCEPT !.fin = TRUE], has |-> FALSE,
               entry |-> Entry(NoValue, NoValue, FALSE), exc |-> FALSE]
    ELSE [src |-> [src EXCEPT !.n = @ + 1, !.started = TRUE,
                              !.fin = (OpKind(o) # "gen")],
          has |-> TRUE,
          entry |-> Entry(c.v, NoValue, c.t = "fresh"), exc |-> FALSE]

\* genf() without its placeholder: a generator function that yields
\* nothing gives an iterator of no item
generator_wrapper_no_placeholder(o, src, c) ==
    IF c.t = "raise"
    THEN [src |-> [src EXCEPT !.fin = TRUE, !.started = TRUE], has |-> TRUE,
          entry |-> Entry(NoValue, SomeException, FALSE), exc |-> FALSE]
    ELSE IF c.t = "end"
    THEN [src |-> [src EXCEPT !.fin = TRUE, !.started = TRUE], has |-> FALSE,
          entry |-> Entry(NoValue, NoValue, FALSE), exc |-> FALSE]
    ELSE [src |-> [src EXCEPT !.n = @ + 1, !.started = TRUE,
                              !.fin = (OpKind(o) # "gen")],
          has |-> TRUE,
          entry |-> Entry(c.v, NoValue, c.t = "fresh"), exc |-> FALSE]

\* Operator.generator_wrapper: the iterator genf() advanced once, the
\* callable doing c.  has = FALSE is StopIteration; exc = TRUE is an
\* exception leaving genf
generator_wrapper(o, src, c) ==
    IF c.t = "raise"
    THEN \* except Exception as e: yield (NoValue, None), (e, uuid)
         [src |-> [src EXCEPT !.fin = TRUE, !.started = TRUE], has |-> TRUE,
          entry |-> Entry(NoValue, SomeException, FALSE), exc |-> FALSE]
    ELSE IF c.t = "end"
    THEN IF src.n = 0
         THEN \* if not has_yielded: yield (NoValue, None), (NoValue, None)
              [src |-> [src EXCEPT !.fin = TRUE, !.started = TRUE], has |-> TRUE,
               entry |-> Entry(NoValue, NoValue, FALSE), exc |-> FALSE]
         ELSE [src |-> [src EXCEPT !.fin = TRUE], has |-> FALSE,
               entry |-> Entry(NoValue, NoValue, FALSE), exc |-> FALSE]
    ELSE \* yield (res, uuid), (NoValue, None)
         [src |-> [src EXCEPT !.n = @ + 1, !.started = TRUE,
                              !.fin = (OpKind(o) # "gen")],
          has |-> TRUE,
          entry |-> Entry(c.v, NoValue, c.t = "fresh"), exc |-> FALSE]

\* PrebuiltOperator.generator_wrapper: the iterator genf() advanced once;
\* it yields the objects of obj_list and nothing else
prebuilt_generator_wrapper(o, src) ==
    IF src.n < Len(ObjList(o))
    THEN [src |-> [src EXCEPT !.n = @ + 1], has |-> TRUE,
          entry |-> Entry(ObjList(o)[src.n + 1], NoValue, FALSE), exc |-> FALSE]
    ELSE [src |-> [src EXCEPT !.fin = TRUE], has |-> FALSE,
          entry |-> Entry(NoValue, NoValue, FALSE), exc |-> FALSE]

\* next(self.iterator) of ExprValueSeq sq
IteratorNext(sq, o, c) ==
    LET src == sq.src IN
    IF src.fin
    THEN [src |-> src, has |-> FALSE, entry |-> Entry(NoValue, NoValue, FALSE),
          exc |-> FALSE]
    ELSE IF src.kind = "list"
    THEN IF src.n < Len(src.items)
         THEN [src |-> [src EXCEPT !.n = @ + 1], has |-> TRUE,
               entry |-> src.items[src.n + 1], exc |-> FALSE]
         ELSE [src |-> [src EXCEPT !.fin = TRUE], has |-> FALSE,
               entry |-> Entry(NoValue, NoValue, FALSE), exc |-> FALSE]
    ELSE IF OpKind(o) = "prebuilt" THEN prebuilt_generator_wrapper(o, src)
    ELSE generator_wrapper(o, src, c)

\* iter(self.op.generator_wrapper(**param_val_map)): the callable has not
\* run yet
OpSource == [kind |-> "op", n |-> 0, fin |-> FALSE, started |-> FALSE, items |-> <<>>]

\* iter(iterated) for a list of items
ListSource(items) ==
    [kind |-> "list", n |-> 0, fin |-> FALSE, started |-> FALSE, items |-> items]

\* ExprValueSeq.__init__.  by: the generator that created it
ExprValueSeq(e, src, pmap, by) ==
    [expr |-> e, iterator |-> "live", src |-> src, value_list |-> <<>>,
     param_expr_val_map |-> pmap, by |-> by, raised |-> FALSE]

----------------------------------------------------------------------------
(* ExprValueSeq.iter_expr_val *)

\* A generator object made by iter_expr_val() on ExprValueSeq s
IterFrame(s) == [EmptyFrame EXCEPT !.kind = "iter", !.s = s]

\* an exception leaves the engine: every running generator is finished
Crash(m) ==
    [m EXCEPT !.gens = [h \in DOMAIN m.gens |->
                          IF h \in Range(m.stack)
                          THEN [m.gens[h] EXCEPT !.pc = "done"] ELSE m.gens[h]],
              !.stack = <<>>,
              !.ret = NoRet,
              !.crashed = TRUE]

\* A value_list that keeps the last ExprValue only
value_list_replace(value_list, expr_val) == <<expr_val>>

\* self.value_list.append(expr_val)
value_list_append(value_list, expr_val) == Append(value_list, expr_val)

\* for ... in self.iterator: the loop of iter_expr_val advanced to its next
\* yield, or to its end
ComputeRemaining(m, g, f, c) ==
    LET sq == m.seqs[f.s]
        o == m.exprs[sq.expr].op
        r == IteratorNext(sq, o, c)
        id == Len(m.vals) + 1
        value == IF r.entry.fresh THEN FreshValue(id) ELSE r.entry.value
        expr_val == ExprValue(sq.expr, sq.param_expr_val_map, value,
                              r.entry.excep, f.s)
        invoked == r.src.started /\ ~sq.src.started
        m1 == [m EXCEPT !.calls = IF invoked
                                  THEN Append(@, [e |-> sq.expr, s |-> f.s])
                                  ELSE @,
                        !.seqs[f.s].raised = @ \/ c.t = "raise"]
    IN  IF r.exc THEN Crash(m1)
        ELSE IF r.has
        THEN Yield([m1 EXCEPT !.vals = Append(@, expr_val),
                              !.seqs[f.s].src = r.src,
                              !.seqs[f.s].value_list = value_list_append(@, id)],
                   g,
                   [f EXCEPT !.pc = "y_new",
                             !.vll = Len(sq.value_list) + 1],
                   <<id>>)
        ELSE \* self.iterator = None
             Return([m1 EXCEPT !.seqs[f.s].src = r.src,
                               !.seqs[f.s].iterator = "None"],
                    g, f)

\* next() on the generator g made by iter_expr_val
iter_expr_val(m, g, c) ==
    LET f == m.gens[g]
        sq == m.seqs[f.s]
    IN  CASE f.pc = "start" ->
               \* yield from yielder(self.value_list, True)
               IF f.idx < Len(sq.value_list)
               THEN Yield(m, g, [f EXCEPT !.idx = @ + 1],
                          <<sq.value_list[f.idx + 1]>>)
               \* if self.iterator:
               ELSE IF sq.iterator = "None" THEN Return(m, g, f)
               ELSE ComputeRemaining(m, g, f, c)
          [] f.pc = "y_new" ->
               \* if value_list_len != len(self.value_list):
               IF f.vll # Len(sq.value_list)
               THEN LET slice == SubSeq(sq.value_list, f.vll + 1,
                                        Len(sq.value_list))
                    IN  Yield(m, g, [f EXCEPT !.pc = "catchup",
                                              !.slice = slice, !.idx = 1],
                              <<slice[1]>>)
               ELSE ComputeRemaining(m, g, f, c)
          [] f.pc = "catchup" ->
               IF f.idx < Len(f.slice)
               THEN Yield(m, g, [f EXCEPT !.idx = @ + 1],
                          <<f.slice[f.idx + 1]>>)
               ELSE ComputeRemaining(m, g, f, c)
          [] OTHER -> Return(m, g, f)

\* whether next() on generator g of iter_expr_val advances self.iterator
ReachesIterator(m, g) ==
    LET f == m.gens[g]
        sq == m.seqs[f.s]
    IN  CASE f.pc = "start" -> f.idx >= Len(sq.value_list) /\ sq.iterator # "None"
          [] f.pc = "y_new" -> f.vll = Len(sq.value_list)
          [] f.pc = "catchup" -> f.idx >= Len(f.slice)
          [] OTHER -> FALSE

IterSteps(m, g) ==
    LET sq == m.seqs[m.gens[g].s]
        \* param_val_map: the values of the ExprValues of param_expr_val_map
        args == [p \in 1..Len(sq.param_expr_val_map) |->
                    IF sq.param_expr_val_map[p] = 0 THEN NoValue
                    ELSE m.vals[sq.param_expr_val_map[p]].value]
    IN  IF ReachesIterator(m, g)
        THEN CallableSteps(m.exprs[sq.expr].op, sq.src, args)
        ELSE {NoStep}

\* the ExprValues a generator has yielded, in order
Yielded(f) == [i \in 1..Len(f.yl) |-> f.yl[i][1]]

----------------------------------------------------------------------------
(* Expression graphs *)

\* Expression.__init__ (discard_result() makes result_list empty).  pm names
\* the dictionary object that is self.param_map, data the one that is
\* self.data
Expression(op, pm, data) ==
    [op |-> op, pm |-> pm, data |-> data, result_list |-> <<>>]

\* The Expressions of a scenario as build_expr_list returns them, each
\* given as <<callable, the Expressions bound to its parameters>>; every
\* Expression has its own param_map.
\*   dedup:      b(x(s)) and c(x(s)), built independently
\*   diamond:    r(x(s), y(s))
\*   diamond_nr: r(xn(s, n(s)), y(s)), n being non-reusable
\*   fresh:      n(a) and w(n(a)), n being non-reusable
\*   product:    p(s, t), s and t multi-valued
\*   nonreuse:   q(s, n), n being non-reusable and multi-valued
\*   context:    b(u(ExprData, Consumer)), c(u(ExprData, Consumer)) and
\*               w(Consumer)
\*   prebuilt:   y(v), x(e) and w(n), v, e and n being PrebuiltOperators with
\*               two objects, none, and none (n non-reusable)
\*   memo:       x(s)
\*   nested:     xn(s, n(s)), n being non-reusable
Graph(name) ==
    CASE name = "dedup" ->
           << <<"gen_s", <<>>>>, <<"mk_x", <<1>>>>, <<"mk_b", <<2>>>>,
              <<"gen_s", <<>>>>, <<"mk_x", <<4>>>>, <<"mk_c", <<5>>>> >>
      [] name = "diamond" ->
           << <<"gen_s", <<>>>>, <<"mk_x", <<1>>>>,
              <<"gen_s", <<>>>>, <<"mk_y", <<3>>>>, <<"mk_r", <<2, 4>>>> >>
      [] name = "diamond_nr" ->
           << <<"gen_s", <<>>>>, <<"gen_s", <<>>>>, <<"mk_n", <<2>>>>,
              <<"mk_xn", <<1, 3>>>>,
              <<"gen_s", <<>>>>, <<"mk_y", <<5>>>>, <<"mk_r", <<4, 6>>>> >>
      [] name = "fresh" ->
           << <<"mk_a", <<>>>>, <<"mk_n", <<1>>>>,
              <<"mk_a", <<>>>>, <<"mk_n", <<3>>>>, <<"mk_w", <<4>>>> >>
      [] name = "product" ->
           << <<"gen_s", <<>>>>, <<"gen_t", <<>>>>, <<"mk_p", <<1, 2>>>> >>
      [] name = "nonreuse" ->
           << <<"gen_s", <<>>>>, <<"gen_n", <<>>>>, <<"mk_q", <<1, 2>>>> >>
      [] name = "context" ->
           << <<"ExprData", <<>>>>, <<"Consumer", <<>>>>, <<"mk_u", <<1, 2>>>>,
              <<"mk_b", <<3>>>>,
              <<"ExprData", <<>>>>, <<"Consumer", <<>>>>, <<"mk_u", <<5, 6>>>>,
              <<"mk_c", <<7>>>>,
              <<"Consumer", <<>>>>, <<"mk_w", <<9>>>> >>
      [] name = "prebuilt" ->
           << <<"pre_v", <<>>>>, <<"mk_y", <<1>>>>,
              <<"pre_e", <<>>>>, <<"mk_x", <<3>>>>,
              <<"pre_n", <<>>>>, <<"mk_w", <<5>>>> >>
      [] name = "memo" ->
           << <<"gen_i", <<>>>>, <<"mk_x", <<1>>>> >>
      [] name = "nested" ->
           << <<"gen_i", <<>>>>, <<"gen_i", <<>>>>, <<"mk_n", <<2>>>>,
              <<"mk_xn", <<1, 3>>>> >>
      [] OTHER -> << <<"gen_q", <<>>>> >>

\* The top-level Expressions of a scenario (the expr_wrapper_list)
Roots(name) ==
    CASE name = "dedup" -> <<3, 6>>
      [] name = "diamond" -> <<5>>
      [] name = "diamond_nr" -> <<7>>
      [] name = "fresh" -> <<2, 5>>
      [] name = "product" -> <<3>>
      [] name = "nonreuse" -> <<3>>
      [] name = "context" -> <<4, 8, 10>>
      [] name = "prebuilt" -> <<2, 4, 6>>
      [] name = "memo" -> <<2>>
      [] name = "nested" -> <<4>>
      [] OTHER -> <<1>>

Scenarios == {"dedup", "diamond", "diamond_nr", "fresh"}

InitExprs(name) == [i \in 1..Len(Graph(name)) |-> Expression(Graph(name)[i][1], i, i)]
InitDicts(name) == [i \in 1..Len(Graph(name)) |-> Graph(name)[i][2]]

\* self.param_map of Expression e, as the sequence of the Expressions
\* bound to its parameters
ParamMap(xs, ds, e) == ds[xs[e].pm]

\* the Expressions reachable from e through param_map, e included
RECURSIVE SubExprs(_, _, _)
SubExprs(xs, ds, e) ==
    {e} \cup UNION {SubExprs(xs, ds, ParamMap(xs, ds, e)[p]) :
                        p \in 1..Len(ParamMap(xs, ds, e))}

\* the structure of Expression e: its callable and the structures of its
\* parameters
RECURSIVE Structure(_, _, _)
Structure(xs, ds, e) ==
    <<xs[e].op, [p \in 1..Len(ParamMap(xs, ds, e)) |->
                    Structure(xs, ds, ParamMap(xs, ds, e)[p])]>>

----------------------------------------------------------------------------
(* Expression._prepare_exec and Expression.get_executor_map *)

\* A deduplication pass that finds no duplicate: every Expression of the
\* batch is kept
NoReplacements(h, new) == {}

\* The Expressions of expr_set that new_expr duplicates: same callable and
\* an equal param_map (the same Expression objects for the same parameters)
Replacements(h, new) ==
    {r \in h.expr_set \ {new} :
        /\ h.exprs[new].op = h.exprs[r].op
        /\ h.dicts[h.exprs[new].pm] = h.dicts[h.exprs[r].pm]}

\* new_expr = copy.copy(self): a new Expression object holding the same
\* attribute values as self, so the same param_map dictionary object
ShallowCopy(x) == x

\* h = [exprs, dicts, expr_set, r]: the heap, the pool of deduplicated
\* Expressions and the Expression returned
RECURSIVE prepare_exec(_, _)
RECURSIVE PrepareParams(_, _, _, _)

\* for param, param_expr in list(new_expr.param_map.items()):
\*     new_expr.param_map[param] = param_expr._prepare_exec(expr_set)
PrepareParams(h, new, items, p) ==
    IF p > Len(items) THEN h
    ELSE LET h1 == prepare_exec(h, items[p])
             h2 == [h1 EXCEPT !.dicts[h1.exprs[new].pm][p] = h1.r]
         IN  PrepareParams(h2, new, items, p + 1)

prepare_exec(h, self) ==
    LET new == Len(h.exprs) + 1
        \* new_expr.discard_result()
        new_expr == [ShallowCopy(h.exprs[self]) EXCEPT !.result_list = <<>>]
        h1 == [h EXCEPT !.exprs = Append(@, new_expr)]
        h2 == PrepareParams(h1, new, h1.dicts[new_expr.pm], 1)
        found == Replacements(h2, new)
    IN  IF found # {}
        THEN [h2 EXCEPT !.r = CHOOSE r \in found : TRUE]
        ELSE [h2 EXCEPT !.expr_set = @ \cup {new}, !.r = new]

\* for expr_wrapper in expr_wrapper_list:
\*     expr_wrapper.expr = expr_wrapper.expr._prepare_exec(expr_set)
RECURSIVE PrepareWrappers(_, _, _)
PrepareWrappers(h, ws, i) ==
    IF i > Len(ws) THEN [h |-> h, ws |-> ws]
    ELSE LET h1 == prepare_exec(h, ws[i])
         IN  PrepareWrappers(h1, [ws EXCEPT ![i] = h1.r], i + 1)

get_executor_map(xs, ds, ws) ==
    PrepareWrappers([exprs |-> xs, dicts |-> ds, expr_set |-> {}, r |-> 0], ws, 1)

----------------------------------------------------------------------------
(* ExprValue.validate_expr_val_list and ExprValue.expr_val_product *)

\* the positions of the parameters of Expression e bound to an Expression
\* of a reusable (or non-reusable) operator, in parameter order
ParamPositions(m, e, reusable) ==
    LET pm == ParamMap(m.exprs, dicts, e)
        Keep(p) == OpReusable(m.exprs[pm[p]].op) = reusable
    IN  SelectSeq([p \in 1..Len(pm) |-> p], Keep)

\* the keys of a param_expr_val_map in insertion order: the reusable
\* parameters (consume_gen_map), then the non-reusable ones (update())
MapOrder(m, v) ==
    LET e == m.vals[v].expr
        Has(p) == m.vals[v].param_expr_val_map[p] # 0
    IN  SelectSeq(ParamPositions(m, e, TRUE) \o ParamPositions(m, e, FALSE), Has)

\* ExprValue.get_parent_expr_vals: the ExprValue and the ExprValues it was
\* built from, in the order _get_parent_expr_vals visits them
RECURSIVE get_parent_expr_vals(_, _)
RECURSIVE VisitParams(_, _, _, _)
VisitParams(m, v, order, i) ==
    IF i > Len(order) THEN <<>>
    ELSE get_parent_expr_vals(m, m.vals[v].param_expr_val_map[order[i]])
         \o VisitParams(m, v, order, i + 1)

get_parent_expr_vals(m, v) == <<v>> \o VisitParams(m, v, MapOrder(m, v), 1)

\* ExprValue._get_expr_map: Expression -> the ExprValue visited last for
\* it (expr_map[expr_val.expr] = expr_val); 0 when the Expression is not a key
get_expr_map(m, v) ==
    LET visit == get_parent_expr_vals(m, v)
        Last(e) == LET at == {i \in 1..Len(visit) : m.vals[visit[i]].expr = e}
                   IN  IF at = {} THEN 0
                       ELSE visit[CHOOSE i \in at : \A j \in at : j <= i]
    IN  [e \in DOMAIN m.exprs |-> Last(e)]

\* ExprValue.validate_expr_val_list
RECURSIVE validate_expr_val_list(_, _)
validate_expr_val_list(m, expr_val_list) ==
    IF expr_val_list = <<>> THEN TRUE
    ELSE LET expr_map_ref == get_expr_map(m, expr_val_list[1])
             Same(expr_val) ==
                 LET expr_map == get_expr_map(m, expr_val)
                 IN  \A e \in DOMAIN m.exprs :
                        (/\ expr_map[e] # 0
                         /\ expr_map_ref[e] # 0
                         /\ OpReusable(m.exprs[e].op))
                        => expr_map_ref[e] = expr_map[e]
         IN  \A i \in 2..Len(expr_val_list) :
                /\ Same(expr_val_list[i])
                /\ validate_expr_val_list(m,
                       SubSeq(expr_val_list, 3, Len(expr_val_list)))

\* A test that finds no NoValue
no_value_is_NoValue(m, value_list) == FALSE

\* any_value_is_NoValue
any_value_is_NoValue(m, value_list) ==
    \E i \in 1..Len(value_list) : m.vals[value_list[i]].value = NoValue

\* A product that goes on reading sub_generator_list_iterator, which is
\* exhausted, instead of the saved value_list
from_gen_kept(f) == f.fg

\* from_gen = False: "After the first traversal of
\* sub_generator_list_iterator, we want to yield from the saved value_list"
from_gen_after_traversal(f) == FALSE

\* A generator object made by expr_val_product(*gen_list)
ProdFrame(gen_list) == [EmptyFrame EXCEPT !.kind = "prod", !.gl = gen_list]

\* for sub_expr_val_list in infinite_iter(..., value_list, from_gen=False):
\* the saved value_list is gone through from position idx on, up to the
\* next list that is valid with the current ExprValue
ProdReplay(m, g, f, idx) ==
    LET ok == {i \in (idx + 1)..Len(f.vl) :
                  validate_expr_val_list(m, <<f.cur>> \o f.vl[i])}
    IN  IF ok # {}
        THEN LET i == CHOOSE i \in ok : \A j \in ok : i <= j
             IN  Yield(m, g, [f EXCEPT !.pc = "y_rep", !.idx = i],
                       <<f.cur>> \o f.vl[i])
        ELSE \* for expr_val in generator:
             CallNext([m EXCEPT !.gens[g] = [f EXCEPT !.pc = "wait_gen"]],
                      f.gl[1])

\* next() on the generator g of expr_val_product, or its continuation when
\* the generator it advanced has yielded or returned
expr_val_product(m, g) ==
    LET f == m.gens[g] IN
    CASE f.pc = "start" ->
           \* sub_generator_list_iterator = cls.expr_val_product(*gen_list[1:])
           IF Len(f.gl) > 1
           THEN LET sub == Len(m.gens) + 1
                    m1 == [m EXCEPT !.gens = Append(@, ProdFrame(Tail(f.gl)))]
                IN  CallNext([m1 EXCEPT !.gens[g] =
                                 [f EXCEPT !.pc = "wait_gen", !.sub = sub]],
                             f.gl[1])
           ELSE CallNext([m EXCEPT !.gens[g] = [f EXCEPT !.pc = "wait_gen"]],
                         f.gl[1])
      [] f.pc = "wait_gen" ->
           IF m.ret.k = "stop" THEN Return(m, g, f)
           ELSE LET expr_val == m.ret.v[1] IN
                IF f.sub = 0
                THEN \* the last generator of gen_list
                     IF validate_expr_val_list(m, <<expr_val>>)
                     THEN Yield(m, g, [f EXCEPT !.pc = "y_gen"], <<expr_val>>)
                     ELSE CallNext(m, f.gl[1])
                ELSE IF m.vals[expr_val].value = NoValue
                THEN \* yield [expr_val]; continue
                     Yield(m, g, [f EXCEPT !.pc = "y_gen"], <<expr_val>>)
                ELSE IF f.fg
                THEN CallNext([m EXCEPT !.gens[g] =
                                 [f EXCEPT !.pc = "wait_sub", !.cur = expr_val]],
                              f.sub)
                ELSE ProdReplay(m, g, [f EXCEPT !.cur = expr_val], 0)
      [] f.pc = "y_gen" ->
           CallNext([m EXCEPT !.gens[g] = [f EXCEPT !.pc = "wait_gen"]], f.gl[1])
      [] f.pc = "wait_sub" ->
           IF m.ret.k = "stop"
           THEN \* from_gen = False; for expr_val in generator:
                CallNext([m EXCEPT !.gens[g] =
                             [f EXCEPT !.pc = "wait_gen",
                                       !.fg = from_gen_after_traversal(f)]],
                         f.gl[1])
           ELSE \* infinite_iter: value_list.append(value); yield value
                LET f1 == [f EXCEPT !.vl = Append(@, m.ret.v)]
                    expr_val_list == <<f.cur>> \o m.ret.v
                IN  IF validate_expr_val_list(m, expr_val_list)
                    THEN Yield(m, g, [f1 EXCEPT !.pc = "y_sub"], expr_val_list)
                    ELSE CallNext([m EXCEPT !.gens[g] = f1], f.sub)
      [] f.pc = "y_sub" ->
           CallNext([m EXCEPT !.gens[g] = [f EXCEPT !.pc = "wait_sub"]], f.sub)
      [] f.pc = "y_rep" -> ProdReplay(m, g, f, f.idx)
      [] OTHER -> Return(m, g, f)

----------------------------------------------------------------------------
(* Expression._execute *)

\* A generator object made by _execute(consumer_expr_stack, ...) on e
ExecFrame(e, consumer_expr_stack) ==
    [EmptyFrame EXCEPT !.kind = "exec", !.e = e, !.cs = consumer_expr_stack]

\* the number of keys of a param_expr_val_map
MapLen(b) == Cardinality({p \in 1..Len(b) : b[p] # 0})

\* the ExprValues of a param_expr_val_map
MapValues(b) == SelectSeq(b, LAMBDA v : v # 0)

\* value_map(expr_val_map): parameter -> expr_val.value, for the keys of b
\* (keys: whether the parameter is a key)
value_map(m, b) ==
    [p \in 1..Len(b) |->
        IF b[p] = 0 THEN [key |-> FALSE, value |-> NoValue]
        ELSE [key |-> TRUE, value |-> m.vals[b[p]].value]]

\* A lookup that finds no stored ExprValueSeq
find_no_result_list(m, e, b) == <<>>

\* A lookup that matches the ExprValues themselves (the same objects), not
\* their values
find_result_list_by_identity(m, e, b) ==
    LET Matches(s) ==
            \A p \in 1..Len(b) : b[p] # 0 => m.seqs[s].param_expr_val_map[p] = b[p]
    IN  SelectSeq(m.exprs[e].result_list, Matches)

\* Expression.find_result_list: the ExprValueSeqs of self.result_list whose
\* param_expr_val_map holds, for every parameter of b, an equal value
find_result_list(m, e, b) ==
    LET wanted == value_map(m, b)
        Matches(s) ==
            LET have == value_map(m, m.seqs[s].param_expr_val_map)
            IN  \A p \in 1..Len(b) : wanted[p].key => have[p] = wanted[p]
    IN  SelectSeq(m.exprs[e].result_list, Matches)

\* Every Expression taken as reusable by the memo lookup
MayReuseAlways(m, e) == TRUE

\* reusable = self.op.reusable
MayReuse(m, e) == OpReusable(m.exprs[e].op)

\* the loop over consume_gen_map(reusable_param_exec_map, ...) goes to its
\* next iteration
ExecLoop(m, g, f) ==
    IF f.gl = <<>>
    THEN \* consume_gen_map of an empty map yields one OrderedDict()
         Return(m, g, f)
    ELSE CallNext([m EXCEPT !.gens[g] = [f EXCEPT !.pc = "wait_prod"]], f.sub)

\* A Consumer that names the operator declaring the parameter
ConsumerIsDeclaring(m, consumer_expr_stack) ==
    IF Len(consumer_expr_stack) < 1 THEN NoneValue
    ELSE CallableValue(m.exprs[consumer_expr_stack[Len(consumer_expr_stack)]].op)

\* consumer = consumer_expr_stack[-2].op.callable_, None on IndexError
ConsumerOf(m, consumer_expr_stack) ==
    IF Len(consumer_expr_stack) < 2 THEN NoneValue
    ELSE CallableValue(m.exprs[consumer_expr_stack[Len(consumer_expr_stack) - 1]].op)

\* iter(iterated): the one value the engine provides for the Consumer and
\* ExprData operators, and the generator_wrapper of any other operator
Iterated(m, f) ==
    CASE m.exprs[f.e].op = "Consumer" ->
           ListSource(<<Entry(ConsumerOf(m, f.cs), NoValue, FALSE)>>)
      [] m.exprs[f.e].op = "ExprData" ->
           \* root_expr = consumer_expr_stack[0]
           ListSource(<<Entry(DataValue(m.exprs[f.cs[1]].data), NoValue, FALSE)>>)
      [] OTHER -> OpSource

\* _execute, from "Propagate exceptions if some parameters did not execute
\* successfully" on, with param_expr_val_map b
ExecFinish(m, g, f, b) ==
    LET e == f.e
        param_map_len == Len(ParamMap(m.exprs, dicts, e))
        s == Len(m.seqs) + 1
    IN  IF MapLen(b) # param_map_len \/ any_value_is_NoValue(m, MapValues(b))
        THEN \* expr_val = ExprValue(self, param_expr_val_map)
             \* expr_val_seq = ExprValueSeq.from_one_expr_val(...)
             LET id == Len(m.vals) + 1
                 expr_val == ExprValue(e, b, NoValue, NoValue, 0)
                 iterated == <<Entry(expr_val.value, expr_val.excep, FALSE)>>
                 m1 == [m EXCEPT
                          !.vals = Append(@, expr_val),
                          !.seqs = Append(@, ExprValueSeq(e, ListSource(iterated), b, g)),
                          !.exprs[e].result_list = Append(@, s)]
             IN  Yield(m1, g, [f EXCEPT !.pc = "y_sc", !.b = b], <<id>>)
        ELSE \* expr_val_seq = ExprValueSeq(self, iterator, param_expr_val_map)
             \* yield from expr_val_seq.iter_expr_val()
             LET it == Len(m.gens) + 1
                 m1 == [m EXCEPT
                          !.seqs = Append(@, ExprValueSeq(e, Iterated(m, f), b, g)),
                          !.exprs[e].result_list = Append(@, s),
                          !.gens = Append(@, IterFrame(s))]
             IN  CallNext([m1 EXCEPT !.gens[g] =
                              [f EXCEPT !.pc = "wait_iter", !.b = b, !.it = it]],
                          it)

\* _execute with the list values of ExprValues that consume_gen_map made
\* into param_expr_val_map
ExecBinding(m, g, f, values) ==
    LET e == f.e
        pm == ParamMap(m.exprs, dicts, e)
        rp == ParamPositions(m, e, TRUE)
        np == ParamPositions(m, e, FALSE)
        \* OrderedDict(zip(param_list, values))
        b == [p \in 1..Len(pm) |->
                LET at == {i \in 1..Len(values) : rp[i] = p}
                IN  IF at = {} THEN 0 ELSE values[CHOOSE i \in at : TRUE]]
        reusable_param_computed == Len(values) = Len(rp)
        result_list == find_result_list(m, e, b)
    IN  IF MayReuse(m, e) /\ reusable_param_computed /\ result_list # <<>>
        THEN IF Len(result_list) # 1
             THEN \* assert len(result_list) == 1
                  Crash(m)
             ELSE LET it == Len(m.gens) + 1
                      m1 == [m EXCEPT !.gens = Append(@, IterFrame(result_list[1]))]
                  IN  CallNext([m1 EXCEPT !.gens[g] =
                                   [f EXCEPT !.pc = "wait_iter", !.b = b, !.it = it]],
                               it)
        ELSE IF /\ reusable_param_computed
                /\ ~any_value_is_NoValue(m, MapValues(b))
                /\ np # <<>>
        THEN \* nonreusable_param_exec_map; next(consume_gen_map(..., no_product))
             LET base == Len(m.gens)
                 ng == [i \in 1..Len(np) |-> base + i]
                 m1 == [m EXCEPT !.gens = @ \o
                          [i \in 1..Len(np) |-> ExecFrame(pm[np[i]], Append(f.cs, e))]]
             IN  CallNext([m1 EXCEPT !.gens[g] =
                              [f EXCEPT !.pc = "wait_nr", !.b = b, !.ng = ng, !.ni = 1]],
                          ng[1])
        ELSE ExecFinish(m, g, f, b)

\* An _execute that takes the next ExprValue from iter_expr_val at once,
\* without yielding the one it was handed
DrainIterator(m, g, f) ==
    CallNext([m EXCEPT !.gens[g] = [f EXCEPT !.pc = "wait_iter"]], f.it)

\* yield from expr_val_seq.iter_expr_val(): the ExprValue the iterator has
\* yielded is yielded to the consumer, and the generator is left suspended
YieldFrom(m, g, f) == Yield(m, g, [f EXCEPT !.pc = "y_iter"], m.ret.v)

\* next() on the generator g of _execute, or its continuation when the
\* generator it advanced has yielded or returned
execute(m, g) ==
    LET f == m.gens[g]
        e == f.e
        pm == ParamMap(m.exprs, dicts, e)
    IN
    CASE f.pc = "start" ->
           \* reusable_param_exec_map, and consume_gen_map(..., expr_val_product)
           LET rp == ParamPositions(m, e, TRUE)
               base == Len(m.gens)
               gl == [i \in 1..Len(rp) |-> base + i]
               frames == [i \in 1..Len(rp) |-> ExecFrame(pm[rp[i]], Append(f.cs, e))]
           IN  IF rp = <<>>
               THEN ExecBinding(m, g, f, <<>>)
               ELSE LET m1 == [m EXCEPT !.gens = (@ \o frames) \o <<ProdFrame(gl)>>]
                        f1 == [f EXCEPT !.gl = gl, !.sub = base + Len(rp) + 1]
                    IN  ExecLoop(m1, g, f1)
      [] f.pc = "wait_prod" ->
           IF m.ret.k = "stop" THEN Return(m, g, f)
           ELSE ExecBinding(m, g, f, m.ret.v)
      [] f.pc = "wait_nr" ->
           \* no_product: [next(generator) for generator in gen_list]
           IF m.ret.k = "stop" THEN Crash(m)
           ELSE LET np == ParamPositions(m, e, FALSE)
                    b == [f.b EXCEPT ![np[f.ni]] = m.ret.v[1]]
                IN  IF f.ni < Len(f.ng)
                    THEN CallNext([m EXCEPT !.gens[g] =
                                     [f EXCEPT !.b = b, !.ni = @ + 1]],
                                  f.ng[f.ni + 1])
                    ELSE ExecFinish(m, g, f, b)
      [] f.pc = "wait_iter" ->
           IF m.ret.k = "stop" THEN ExecLoop(m, g, f)
           ELSE YieldFrom(m, g, f)
      [] f.pc = "y_iter" ->
           CallNext([m EXCEPT !.gens[g] = [f EXCEPT !.pc = "wait_iter"]], f.it)
      [] f.pc = "y_sc" -> ExecLoop(m, g, f)
      [] OTHER -> Return(m, g, f)

----------------------------------------------------------------------------
(* Specification Spec: a batch of Expressions is prepared by               *)
(* get_executor_map and executed as execute_all does, one top-level        *)
(* Expression after the other, each until its generator is exhausted;      *)
(* then up to MaxReexec further calls of execute() on prepared top-level   *)
(* Expressions follow.                                                     *)

InitScenario(names) ==
    /\ scn \in names
    /\ phase = "built"
    /\ exprs = InitExprs(scn)
    /\ dicts = InitDicts(scn)
    /\ wrappers = Roots(scn)
    /\ gens = <<>>
    /\ stack = <<>>
    /\ ret = NoRet
    /\ vals = <<>>
    /\ seqs = <<>>
    /\ calls = <<>>
    /\ runs = <<>>
    /\ crashed = FALSE
    /\ bpool = "none"
    /\ built = <<>>

Init == InitScenario(Scenarios)

\* executor_map = cls.get_executor_map(expr_wrapper_list)
Prepare ==
    /\ phase = "built"
    /\ LET r == get_executor_map(exprs, dicts, wrappers)
       IN  /\ exprs' = r.h.exprs
           /\ dicts' = r.h.dicts
           /\ wrappers' = r.ws
    /\ phase' = "batch"
    /\ UNCHANGED <<scn, gens, stack, ret, vals, seqs, calls, runs, crashed,
                   bpool, built>>

\* the generator of the execution the driver started last has finished
LastRunDone == IF runs = <<>> THEN TRUE ELSE gens[runs[Len(runs)].g].pc = "done"

\* executor(): expr_wrapper.expr.execute() makes the generator of
\* _execute([], post_compute_cb); nothing runs before the first next()
StartExecute ==
    /\ phase = "batch"
    /\ stack = <<>>
    /\ ~crashed
    /\ LastRunDone
    /\ Len(runs) < Len(wrappers) + MaxReexec
    /\ \E w \in 1..Len(wrappers) :
          /\ Len(runs) < Len(wrappers) => w = Len(runs) + 1
          /\ gens' = Append(gens, ExecFrame(wrappers[w], <<>>))
          /\ runs' = Append(runs, [root |-> wrappers[w], g |-> Len(gens) + 1])
    /\ UNCHANGED <<scn, phase, exprs, dicts, wrappers, stack, ret, vals, seqs,
                   calls, crashed, bpool, built>>

\* for expr_val in executor(...): the driver asks for the next ExprValue
Pull ==
    /\ phase = "batch"
    /\ stack = <<>>
    /\ ~crashed
    /\ ~LastRunDone
    /\ SetMach(CallNext(Mach, runs[Len(runs)].g))
    /\ UNCHANGED <<scn, phase, dicts, wrappers, runs, bpool, built>>

\* the running generator is one of Expression._execute
ExecuteStep ==
    /\ stack # <<>>
    /\ gens[Top(Mach)].kind = "exec"
    /\ SetMach(execute(Mach, Top(Mach)))
    /\ UNCHANGED <<scn, phase, dicts, wrappers, runs, bpool, built>>

\* the running generator is one of ExprValue.expr_val_product
ProductStep ==
    /\ stack # <<>>
    /\ gens[Top(Mach)].kind = "prod"
    /\ SetMach(expr_val_product(Mach, Top(Mach)))
    /\ UNCHANGED <<scn, phase, dicts, wrappers, runs, bpool, built>>

\* the running generator is one of ExprValueSeq.iter_expr_val
IterStep ==
    /\ stack # <<>>
    /\ gens[Top(Mach)].kind = "iter"
    /\ \E c \in IterSteps(Mach, Top(Mach)) :
          SetMach(iter_expr_val(Mach, Top(Mach), c))
    /\ UNCHANGED <<scn, phase, dicts, wrappers, runs, bpool, built>>

Next ==
    \/ Prepare
    \/ StartExecute
    \/ Pull
    \/ ExecuteStep
    \/ ProductStep
    \/ IterStep

Spec == Init /\ [][Next]_vars

\* Specification SpecProduct: the same, on the Expressions whose parameters
\* are multi-valued and independent
ProductScenarios == {"product", "nonreuse"}
InitProduct == InitScenario(ProductScenarios)
SpecProduct == InitProduct /\ [][Next]_vars

\* Specification SpecSpecial: the same, on the Expressions that use the
\* operators of the internal classes and PrebuiltOperators
SpecialScenarios == {"context", "prebuilt"}
InitSpecial == InitScenario(SpecialScenarios)
SpecSpecial == InitSpecial /\ [][Next]_vars

\* every top-level Expression of the batch has been executed to the end
BatchDone ==
    /\ phase = "batch"
    /\ Len(runs) >= Len(wrappers)
    /\ gens[runs[Len(wrappers)].g].pc = "done"

----------------------------------------------------------------------------
(* Specification SpecSeq: one ExprValueSeq of a multi-valued operator and *)
(* MaxIter iterators made by iter_expr_val(), each advanced with next()   *)
(* in any order (the consumers of Expression.execute() called several     *)
(* times on one reusable Expression).                                     *)

InitSeq ==
    /\ scn = "seq"
    /\ phase = "exec"
    /\ exprs = <<[Expression("gen_q", 1, 1) EXCEPT !.result_list = <<1>>]>>
    /\ dicts = << <<>> >>
    /\ wrappers = <<1>>
    /\ gens = [g \in 1..MaxIter |-> IterFrame(1)]
    /\ stack = <<>>
    /\ ret = NoRet
    /\ vals = <<>>
    /\ seqs = <<ExprValueSeq(1, OpSource, <<>>, 0)>>
    /\ calls = <<>>
    /\ runs = <<>>
    /\ crashed = FALSE
    /\ bpool = "none"
    /\ built = <<>>

\* a consumer calls next() on iterator g
SeqNext ==
    \E g \in DOMAIN gens :
        /\ stack = <<>>
        /\ gens[g].kind = "iter"
        /\ gens[g].pc # "done"
        /\ \E c \in IterSteps(Mach, g) :
               SetMach(iter_expr_val(CallNext(Mach, g), g, c))
        /\ UNCHANGED <<scn, phase, dicts, wrappers, runs, bpool, built>>

SpecSeq == InitSeq /\ [][SeqNext]_vars

\* C1: an iterator of an ExprValueSeq yields every entry of the sequence
\* exactly once and in append order, whatever other iterators of the same
\* sequence append while it is suspended: what it has yielded is always a
\* prefix of value_list, and all of value_list once it has finished.
C1_ReentrantIteration ==
    \A g \in DOMAIN gens :
        gens[g].kind = "iter" =>
            /\ IsPrefix(Yielded(gens[g]), seqs[gens[g].s].value_list)
            /\ gens[g].pc = "done" =>
                   Yielded(gens[g]) = seqs[gens[g].s].value_list

----------------------------------------------------------------------------
(* What the claims on Spec are stated with *)

\* the generators of _execute
ExecFrames == {g \in DOMAIN gens : gens[g].kind = "exec"}

\* the ExprValue was built by iter_expr_val from the iterator of an operator
IsComputed(v) ==
    IF vals[v].seq = 0 THEN FALSE ELSE seqs[vals[v].seq].src.kind = "op"

\* the values bound to the reusable parameters of Expression e in pmap
\* (<<>>: the parameter is not a key of pmap)
ReusableBinding(e, pmap) ==
    LET rp == ParamPositions(Mach, e, TRUE)
    IN  [i \in 1..Len(rp) |->
            IF pmap[rp[i]] = 0 THEN <<>> ELSE <<vals[pmap[rp[i]]].value>>]

\* the Expressions of the batch
BatchExprs(w) == SubExprs(exprs, dicts, wrappers[w])

\* the structures of the reusable Expressions that two top-level
\* Expressions of the batch both contain
SharedStructures ==
    LET Of(w) == {Structure(exprs, dicts, e) :
                     e \in {x \in BatchExprs(w) : OpReusable(exprs[x].op)}}
    IN  UNION {Of(pr[1]) \cap Of(pr[2]) :
                  pr \in {x \in (1..Len(wrappers)) \X (1..Len(wrappers)) :
                             x[1] # x[2]}}

\* the invocations of the operator of the Expressions of structure k
CallsOf(k) == {i \in 1..Len(calls) : Structure(exprs, dicts, calls[i].e) = k}

\* the reusable-parameter value bindings the Expressions of structure k
\* were computed for
BindingsOf(k) ==
    {ReusableBinding(seqs[s].expr, seqs[s].param_expr_val_map) :
        s \in {x \in 1..Len(seqs) :
                  /\ seqs[x].src.kind = "op"
                  /\ Structure(exprs, dicts, seqs[x].expr) = k}}

C3_OriginalsUnchanged ==
    phase = "batch" =>
        \A e \in 1..Len(InitExprs(scn)) :
            /\ dicts[exprs[e].pm] = InitDicts(scn)[e]
            /\ exprs[e].result_list = InitExprs(scn)[e].result_list

\* the ExprValues of Expression a among v and the ExprValues v was built from
AncestorVals(v, a) ==
    {u \in Range(get_parent_expr_vals(Mach, v)) : vals[u].expr = a}

\* C4: in every ExprValue (made for an operator invocation or for a
\* short-circuit), any two reusable parameters that both depend on a
\* reusable Expression a got the same ExprValue of a on all their paths.
C4_DiamondConsistency ==
    \A v \in 1..Len(vals) :
        LET pmap == vals[v].param_expr_val_map
            rp == {p \in Range(ParamPositions(Mach, vals[v].expr, TRUE)) :
                      pmap[p] # 0}
        IN  \A p \in rp : \A q \in rp \ {p} :
                \A a \in {x \in DOMAIN exprs : OpReusable(exprs[x].op)} :
                    (AncestorVals(pmap[p], a) # {} /\ AncestorVals(pmap[q], a) # {})
                    => Cardinality(AncestorVals(pmap[p], a)
                                   \cup AncestorVals(pmap[q], a)) = 1

\* the ExprValues generator g of _execute has yielded for the binding
\* beta of reusable-parameter values, in order
YieldsFor(g, beta) ==
    SelectSeq(Yielded(gens[g]),
              LAMBDA v : ReusableBinding(vals[v].expr,
                                         vals[v].param_expr_val_map) = beta)

\* the same, the ExprValues of short-circuits left out
ComputedYieldsFor(g, beta) == SelectSeq(YieldsFor(g, beta), IsComputed)

\* the bindings generator g has yielded an ExprValue for
BindingsYielded(g) ==
    {ReusableBinding(vals[v].expr, vals[v].param_expr_val_map) :
        v \in Range(Yielded(gens[g]))}

\* one execution has yielded what the other has, as far as it has got
SameSoFar(g1, g2, y1, y2) ==
    /\ IsPrefix(y1, y2) \/ IsPrefix(y2, y1)
    /\ (gens[g1].pc = "done" /\ gens[g2].pc = "done") => y1 = y2

C6_Freshness ==
    \A g \in ExecFrames :
        ~OpReusable(exprs[gens[g].e].op) =>
            /\ \A v \in Range(Yielded(gens[g])) :
                  vals[v].seq # 0 =>
                      /\ seqs[vals[v].seq].by = g
                      /\ \E i \in 1..Len(calls) : calls[i].s = vals[v].seq
            /\ \A h \in ExecFrames \ {g} :
                  Range(Yielded(gens[g])) \cap Range(Yielded(gens[h])) = {}

\* C6: one non-reusable Expression has been executed twice with the same
\* binding, its operator invoked both times, yielding two ExprValues
C6_Witness ==
    \E g1 \in ExecFrames : \E g2 \in ExecFrames \ {g1} :
        /\ gens[g1].e = gens[g2].e
        /\ ~OpReusable(exprs[gens[g1].e].op)
        /\ \E v1 \in Range(Yielded(gens[g1])) : \E v2 \in Range(Yielded(gens[g2])) :
              /\ v1 # v2
              /\ IsComputed(v1) /\ IsComputed(v2)
              /\ vals[v1].param_expr_val_map = vals[v2].param_expr_val_map
              /\ vals[v1].seq # vals[v2].seq
              /\ \E i \in 1..Len(calls) : calls[i].s = vals[v1].seq
              /\ \E j \in 1..Len(calls) : calls[j].s = vals[v2].seq

\* C7: no exception leaves the engine, and when the callable of an operator
\* has raised, the last ExprValue of the ExprValueSeq it was run for holds
\* the exception and the value NoValue; an ExprValue that holds an
\* exception never holds a value.
C7_ExceptionCapture ==
    /\ ~crashed
    /\ \A s \in 1..Len(seqs) :
          seqs[s].raised =>
              /\ seqs[s].value_list # <<>>
              /\ LET v == seqs[s].value_list[Len(seqs[s].value_list)]
                 IN  vals[v].excep = SomeException /\ vals[v].value = NoValue
    /\ \A v \in 1..Len(vals) :
          vals[v].excep # NoValue =>
              /\ vals[v].value = NoValue
              /\ seqs[vals[v].seq].raised

\* C7: the callable of an operator has raised and the execution of the
\* batch went on to its end
C7_Witness ==
    /\ BatchDone
    /\ \E s \in 1..Len(seqs) :
          /\ seqs[s].raised
          /\ \E v \in Range(seqs[s].value_list) : vals[v].excep = SomeException

\* the ExprValues with value NoValue that an operator produced, among v
\* and the ExprValues v was built from
Failures(v) ==
    {u \in Range(get_parent_expr_vals(Mach, v)) :
        IsComputed(u) /\ vals[u].value = NoValue}

\* the generators of the parameters of the execution g
ParamFrames(g) == Range(gens[g].gl) \cup Range(gens[g].ng)

\* C8: an ExprValue built, directly or transitively, from an ExprValue
\* whose value is NoValue has the value NoValue and no operator was invoked
\* for it; no operator is invoked with a binding that holds NoValue; and an
\* execution that has ended has yielded a NoValue ExprValue for every
\* failure its parameters handed to it.
C8_FailurePropagation ==
    /\ \A v \in 1..Len(vals) :
          (\E u \in Range(get_parent_expr_vals(Mach, v)) \ {v} :
              vals[u].value = NoValue)
          => /\ vals[v].value = NoValue
             /\ vals[v].excep = NoValue
             /\ ~IsComputed(v)
    /\ \A i \in 1..Len(calls) :
          ~any_value_is_NoValue(Mach,
               MapValues(seqs[calls[i].s].param_expr_val_map))
    /\ \A g \in ExecFrames :
          gens[g].pc = "done" =>
              \A h \in ParamFrames(g) \cap ExecFrames :
                  \A a \in Range(Yielded(gens[h])) :
                      vals[a].value = NoValue =>
                          \E v \in Range(Yielded(gens[g])) :
                              /\ vals[v].value = NoValue
                              /\ Failures(a) \cap Failures(v) # {}

\* C8: an operator failed and an Expression two levels above it has
\* yielded a NoValue ExprValue built from that failure
C8_Witness ==
    \E g \in ExecFrames : \E v \in Range(Yielded(gens[g])) :
        /\ vals[v].value = NoValue
        /\ ~IsComputed(v)
        /\ \E p \in Range(MapValues(vals[v].param_expr_val_map)) :
              /\ ~IsComputed(p)
              /\ vals[p].value = NoValue
              /\ \E u \in Range(MapValues(vals[p].param_expr_val_map)) :
                    IsComputed(u) /\ vals[u].excep = SomeException

----------------------------------------------------------------------------
(* ExpressionWrapper.build_expr_list *)

\* largest number of operators in a pool
MaxPoolSize == 4

\* Operator.get_prototype of the operators a pool is drawn from: the type
\* produced and the parameters (name, annotation, whether the parameter is
\* in optional_param).  No operator is a method.
\*   Derived is a subclass of Base; nothing produces Missing; the optional
\*   parameter of opt_c has the type cyc_a produces;
\*   make_int, add_one and show take and produce the builtin int and str
Prototype ==
    [ mk_base    |-> [produced |-> "Base",    param_map |-> <<>>],
      mk_base2   |-> [produced |-> "Base",    param_map |-> <<>>],
      mk_derived |-> [produced |-> "Derived", param_map |-> <<>>],
      f          |-> [produced |-> "F",
                      param_map |-> <<[param |-> "x", cls |-> "Base", optional |-> FALSE],
                                      [param |-> "y", cls |-> "Base", optional |-> FALSE]>>],
      cyc_a      |-> [produced |-> "CA",
                      param_map |-> <<[param |-> "b", cls |-> "CB", optional |-> FALSE]>>],
      cyc_b      |-> [produced |-> "CB",
                      param_map |-> <<[param |-> "a", cls |-> "CA", optional |-> FALSE]>>],
      need       |-> [produced |-> "Base",
                      param_map |-> <<[param |-> "m", cls |-> "Missing", optional |-> FALSE]>>],
      opt        |-> [produced |-> "O",
                      param_map |-> <<[param |-> "x", cls |-> "Base", optional |-> FALSE],
                                      [param |-> "m", cls |-> "Missing", optional |-> TRUE]>>],
      opt_c      |-> [produced |-> "OC",
                      param_map |-> <<[param |-> "x", cls |-> "Base", optional |-> FALSE],
                                      [param |-> "a", cls |-> "CA", optional |-> TRUE]>>],
      make_int   |-> [produced |-> "int",     param_map |-> <<>>],
      add_one    |-> [produced |-> "int",
                      param_map |-> <<[param |-> "x", cls |-> "int", optional |-> FALSE]>>],
      show       |-> [produced |-> "str",
                      param_map |-> <<[param |-> "x", cls |-> "int", optional |-> FALSE]>>] ]

\* the operators in the order a set of them is iterated
OpOrder ==
    <<"mk_base", "mk_base2", "mk_derived", "f", "cyc_a", "cyc_b", "need", "opt",
      "opt_c", "make_int", "add_one", "show">>

Classes == {"Base", "Derived", "F", "CA", "CB", "O", "OC", "Missing", "int", "str"}

\* Operator.value_type
value_type(op) ==
    IF op \in DOMAIN Prototype THEN Prototype[op].produced ELSE op

Handlers == {"raise", "ignore", "callback"}

\* what a call of build_expr_list is given: the operators of op_map, the
\* type whose operators make result_op_seq, whether cls_map lists Derived
\* as compatible with Base, and the two handlers
PoolConfigs ==
    {c \in [pool : SUBSET DOMAIN Prototype, goal : Classes, subclass : BOOLEAN,
            non_produced_handler : Handlers, cycle_handler : Handlers] :
        /\ Cardinality(c.pool) <= MaxPoolSize
        /\ \E op \in c.pool : value_type(op) = c.goal}

\* op_map as the caller gives it: class -> the operators producing it
\* (<<>>: the class is not a key)
CallerOpMap(cfg) ==
    [cls \in Classes |->
        SelectSeq(OpOrder, LAMBDA op : op \in cfg.pool /\ value_type(op) = cls)]

\* cls_map as the caller gives it: class -> the classes compatible with it
CallerClsMap(cfg) ==
    [cls \in Classes |->
        IF cls = "Base" /\ cfg.subclass THEN <<"Base", "Derived">> ELSE <<cls>>]

\* result_op_seq
ResultOpSeq(cfg) == CallerOpMap(cfg)[cfg.goal]

\* the concatenation of the sequences of a sequence
RECURSIVE Concat(_)
Concat(ss) == IF ss = <<>> THEN <<>> ELSE Head(ss) \o Concat(Tail(ss))

\* A product that pairs the first elements only
ProductOfFirsts(ss) ==
    IF \E i \in 1..Len(ss) : ss[i] = <<>> THEN <<>>
    ELSE << [i \in 1..Len(ss) |-> ss[i][1]] >>

\* itertools.product(*ss): the tuples in the order product yields them
RECURSIVE Product(_)
Product(ss) ==
    IF ss = <<>> THEN << <<>> >>
    ELSE LET rest == Product(Tail(ss))
         IN  Concat([i \in 1..Len(Head(ss)) |->
                        [j \in 1..Len(rest) |-> <<Head(ss)[i]>> \o rest[j]]])

\* Expression(op, param_map), param_map a sequence of (param, Expression)
BuiltExpression(op, param_map) == [op |-> op, param_map |-> param_map]

\* what running a generator of _build_expr to its end gives: the
\* Expressions yielded, the exception raised (err) with the operators it
\* names, and the calls made to the handlers
BuildResult(err, path, expr_list, handled) ==
    [err |-> err, path |-> path, exprs |-> expr_list, handled |-> handled]

\* internal_cls_set
InternalClasses == {"Consumer", "ExprData"}

\* get_prototype()[0] of an operator; the operator of an internal class
\* takes no parameter
PrototypeParams(op) ==
    IF op \in DOMAIN Prototype THEN Prototype[op].param_map ELSE <<>>

\* op_map inside build_expr_list: the caller's, and one operator for each
\* internal class
BuildOpMap(cfg) ==
    [cls \in Classes \cup InternalClasses |->
        IF cls \in InternalClasses THEN <<cls>> ELSE CallerOpMap(cfg)[cls]]

\* A cls_map that keeps a class only when an operator without parameter
\* produces a class compatible with it
BuildClsMapOfLeaves(cfg) ==
    [cls \in Classes \cup InternalClasses |->
        IF cls \in InternalClasses THEN <<cls>>
        ELSE IF \E c \in Range(CallerClsMap(cfg)[cls]) :
                   \E i \in 1..Len(CallerOpMap(cfg)[c]) :
                       PrototypeParams(CallerOpMap(cfg)[c][i]) = <<>>
        THEN CallerClsMap(cfg)[cls]
        ELSE <<>>]

\* cls_map inside build_expr_list: the classes with at least one compatible
\* class that is produced (<<>>: the class is not a key)
BuildClsMap(cfg) ==
    [cls \in Classes \cup InternalClasses |->
        IF cls \in InternalClasses THEN <<cls>>
        ELSE IF \E c \in Range(CallerClsMap(cfg)[cls]) : CallerOpMap(cfg)[c] # <<>>
        THEN CallerClsMap(cfg)[cls]
        ELSE <<>>]

\* A cycle policy that builds the operator found again without its
\* parameters
OnCycleBuild(cycle_handler, new_op_stack) ==
    BuildResult("none", <<>>, <<BuiltExpression(Head(new_op_stack), <<>>)>>, <<>>)

\* A cycle policy that drops the branch whatever cycle_handler is
OnCycleDrop(cycle_handler, new_op_stack) == BuildResult("none", <<>>, <<>>, <<>>)

\* A cycle policy that raises whatever cycle_handler is
OnCycleRaise(cycle_handler, new_op_stack) ==
    BuildResult("CycleError", new_op_stack, <<>>, <<>>)

\* A cycle policy that hands a callable handler the operator found again
\* only
OnCycleTop(cycle_handler, new_op_stack) ==
    CASE cycle_handler = "ignore" -> BuildResult("none", <<>>, <<>>, <<>>)
      [] cycle_handler = "callback" ->
           BuildResult("none", <<>>, <<>>,
                       <<[handler |-> "cycle", ops |-> <<Head(new_op_stack)>>]>>)
      [] OTHER -> BuildResult("CycleError", new_op_stack, <<>>, <<>>)

\* _build_expr when op is in op_stack ("We detected a cyclic dependency"):
\* return, call the handler with the callables of new_op_stack and return,
\* or raise CycleError with the names of the operators of new_op_stack
OnCycle(cycle_handler, new_op_stack) ==
    CASE cycle_handler = "ignore" -> BuildResult("none", <<>>, <<>>, <<>>)
      [] cycle_handler = "callback" ->
           BuildResult("none", <<>>, <<>>,
                       <<[handler |-> "cycle", ops |-> new_op_stack]>>)
      [] OTHER -> BuildResult("CycleError", new_op_stack, <<>>, <<>>)

\* A policy for parameters no operator produces that drops the branch
\* whatever non_produced_handler is
OnNonProducedDrop(non_produced_handler, op, p, new_op_stack) ==
    BuildResult("none", <<>>, <<>>, <<>>)

\* A policy for parameters no operator produces that builds the operator
\* without its parameters
OnNonProducedBuild(non_produced_handler, op, p, new_op_stack) ==
    BuildResult("none", <<>>, <<BuiltExpression(op, <<>>)>>, <<>>)

\* _build_expr when no class is available for the required parameter p of
\* op: return, call the handler and return, or raise NoOperatorError
OnNonProduced(non_produced_handler, op, p, new_op_stack) ==
    CASE non_produced_handler = "ignore" -> BuildResult("none", <<>>, <<>>, <<>>)
      [] non_produced_handler = "callback" ->
           BuildResult("none", <<>>, <<>>,
                       <<[handler |-> "non_produced", cls |-> p.cls, op |-> op,
                          param |-> p.param, ops |-> new_op_stack]>>)
      [] OTHER -> BuildResult("NoOperatorError", new_op_stack, <<>>, <<>>)

\* A test that takes no parameter as optional
NeverOptional(p) == FALSE

\* if param in op.optional_param
IsOptional(p) == p.optional

\* A test that finds a cycle only when op is in op_stack twice
in_op_stack_twice(op, op_stack) ==
    Cardinality({i \in 1..Len(op_stack) : op_stack[i] = op}) >= 2

\* if op in op_stack
in_op_stack(op, op_stack) == op \in Range(op_stack)

RECURSIVE build_expr(_, _, _, _, _, _)

\* itertools.product(*(cls._build_expr(param_op, ...) for param_op in
\* op_combi)) running the generators of op_combi from the i-th on;
\* lists: what each generator yielded
RECURSIVE BuildParamCombis(_, _, _, _, _, _, _, _)
BuildParamCombis(op_combi, i, acc, op_map, cls_map, op_stack, non_produced_handler, cycle_handler) ==
    IF i > Len(op_combi) \/ acc.err # "none" THEN acc
    ELSE LET r == build_expr(op_combi[i], op_map, cls_map, op_stack,
                             non_produced_handler, cycle_handler)
         IN  BuildParamCombis(op_combi, i + 1,
                 [err |-> r.err, path |-> r.path,
                  lists |-> Append(acc.lists, r.exprs),
                  handled |-> acc.handled \o r.handled],
                 op_map, cls_map, op_stack, non_produced_handler, cycle_handler)

\* the two loops of _build_expr over cls_combi and op_combi, gone through
\* as the sequence op_combi_list of the op_combi they reach, from the k-th on
RECURSIVE BuildCombis(_, _, _, _, _, _, _, _, _, _)
BuildCombis(op, param_list, op_combi_list, k, acc, op_map, cls_map, op_stack, non_produced_handler, cycle_handler) ==
    IF k > Len(op_combi_list) \/ acc.err # "none" THEN acc
    ELSE LET r == BuildParamCombis(op_combi_list[k], 1,
                      [err |-> "none", path |-> <<>>, lists |-> <<>>,
                       handled |-> <<>>],
                      op_map, cls_map, op_stack, non_produced_handler,
                      cycle_handler)
             param_combis == Product(r.lists)
             \* param_map = OrderedDict(zip(param_list, param_combi))
             Zip(param_combi) ==
                 [i \in 1..(IF Len(param_combi) < Len(param_list)
                            THEN Len(param_combi) ELSE Len(param_list)) |->
                     [param |-> param_list[i], expr |-> param_combi[i]]]
             \* if len(param_map) == param_list_len
             kept == SelectSeq(param_combis,
                               LAMBDA pc : Len(Zip(pc)) = Len(param_list))
             yielded == [i \in 1..Len(kept) |-> BuiltExpression(op, Zip(kept[i]))]
         IN  BuildCombis(op, param_list, op_combi_list, k + 1,
                 IF r.err # "none"
                 THEN BuildResult(r.err, r.path, <<>>, acc.handled \o r.handled)
                 ELSE BuildResult("none", <<>>, acc.exprs \o yielded,
                                  acc.handled \o r.handled),
                 op_map, cls_map, op_stack, non_produced_handler, cycle_handler)

\* ExpressionWrapper._build_expr, its generator run to the end
build_expr(op, op_map, cls_map, op_stack, non_produced_handler, cycle_handler) ==
    LET new_op_stack == <<op>> \o op_stack
        param_map == PrototypeParams(op)
        cls_combis == [i \in 1..Len(param_map) |-> cls_map[param_map[i].cls]]
        \* the parameters no class is available for
        missing == {i \in 1..Len(param_map) : cls_combis[i] = <<>>}
        required == {i \in missing : ~IsOptional(param_map[i])}
        first == CHOOSE i \in required : \A j \in required : i <= j
        ignored_indices == {i \in missing : IsOptional(param_map[i])}
        Keep(i) == i \notin ignored_indices
        kept == SelectSeq([i \in 1..Len(param_map) |-> i], Keep)
        param_list == [i \in 1..Len(kept) |-> param_map[kept[i]].param]
        kept_cls_combis == [i \in 1..Len(kept) |-> cls_combis[kept[i]]]
        \* op_combis = [op_map[cls] for cls in cls_combi if cls in op_map]
        OpCombis(cls_combi) ==
            LET produced == SelectSeq(cls_combi, LAMBDA cls : op_map[cls] # <<>>)
            IN  [i \in 1..Len(produced) |-> op_map[produced[i]]]
        cls_combi_list == Product(kept_cls_combis)
        op_combi_list == Concat([i \in 1..Len(cls_combi_list) |->
                                    Product(OpCombis(cls_combi_list[i]))])
    IN  IF in_op_stack(op, op_stack)
        THEN \* We detected a cyclic dependency
             OnCycle(cycle_handler, new_op_stack)
        ELSE IF param_map = <<>>
        THEN \* When no parameter is needed
             BuildResult("none", <<>>, <<BuiltExpression(op, <<>>)>>, <<>>)
        ELSE IF required # {}
        THEN OnNonProduced(non_produced_handler, op, param_map[first],
                           new_op_stack)
        ELSE BuildCombis(op, param_list, op_combi_list, 1,
                         BuildResult("none", <<>>, <<>>, <<>>),
                         op_map, cls_map, new_op_stack,
                         non_produced_handler, cycle_handler)

\* Expression._populate_type_map: [type_map, valid], type_map giving for a
\* class the callable found for it ("None": the class is not a key)
RECURSIVE populate_type_map(_, _)
RECURSIVE PopulateParams(_, _, _)
PopulateParams(expr, i, tm) ==
    IF i > Len(expr.param_map) THEN [type_map |-> tm, valid |-> TRUE]
    ELSE LET r == populate_type_map(expr.param_map[i].expr, tm)
         IN  IF ~r.valid THEN [type_map |-> r.type_map, valid |-> FALSE]
             ELSE PopulateParams(expr, i + 1, r.type_map)

\* A _populate_type_map that accepts every Expression
populate_type_map_unchecked(expr, type_map) ==
    [type_map |-> type_map, valid |-> TRUE]

populate_type_map(expr, type_map) ==
    LET found_callable == type_map[value_type(expr.op)]
    IN  IF found_callable # "None" /\ found_callable # expr.op
        THEN [type_map |-> type_map, valid |-> FALSE]
        ELSE PopulateParams(expr, 1,
                            [type_map EXCEPT ![value_type(expr.op)] = expr.op])

\* Expression._get_type_map
get_type_map(expr) ==
    populate_type_map(expr, [cls \in Classes \cup InternalClasses |-> "None"])

\* a class object, and an Operator object (named by its callable)
ClassObject(cls) == [kind |-> "class", name |-> cls]
OperatorObject(op) == [kind |-> "Operator", name |-> op]

\* Expression.validate_expr
validate_expr(expr, op_map) ==
    LET r == get_type_map(expr)
        \* cls_bags = [set(cls_list) for cls_list in op_map.values()]
        cls_bags == {{OperatorObject(o) : o \in Range(op_map[cls])} :
                        cls \in {c \in DOMAIN op_map : op_map[c] # <<>>}}
        cls_used == {ClassObject(cls) :
                        cls \in {c \in DOMAIN r.type_map : r.type_map[c] # "None"}}
    IN  IF ~r.valid THEN FALSE
        ELSE ~ \E cls1 \in cls_used : \E cls2 \in cls_used :
                  \E cls_bag \in cls_bags : cls1 \in cls_bag /\ cls2 \in cls_bag

\* the loop of build_expr_list over result_op_seq, from the i-th operator on
RECURSIVE BuildResults(_, _, _, _, _)
BuildResults(cfg, op_map, cls_map, i, acc) ==
    IF i > Len(ResultOpSeq(cfg)) \/ acc.err # "none" THEN acc
    ELSE LET r == build_expr(ResultOpSeq(cfg)[i], op_map, cls_map, <<>>,
                             cfg.non_produced_handler, cfg.cycle_handler)
             valid == SelectSeq(r.exprs, LAMBDA expr : validate_expr(expr, op_map))
         IN  BuildResults(cfg, op_map, cls_map, i + 1,
                 IF r.err # "none"
                 THEN BuildResult(r.err, r.path, <<>>, acc.handled \o r.handled)
                 ELSE BuildResult("none", <<>>, acc.exprs \o valid,
                                  acc.handled \o r.handled))

\* ExpressionWrapper.build_expr_list: exprs is the list returned when err
\* is "none"; otherwise err is the exception that left the call
build_expr_list(cfg) ==
    BuildResults(cfg, BuildOpMap(cfg), BuildClsMap(cfg), 1,
                 BuildResult("none", <<>>, <<>>, <<>>))

----------------------------------------------------------------------------
(* Specification SpecBuild: build_expr_list called once, on any pool of at *)
(* most MaxPoolSize operators, with any handlers.                          *)

InitBuild ==
    /\ scn = "build"
    /\ phase = "pool"
    /\ bpool \in PoolConfigs
    /\ built = BuildResult("none", <<>>, <<>>, <<>>)
    /\ exprs = <<>>
    /\ dicts = <<>>
    /\ wrappers = <<>>
    /\ gens = <<>>
    /\ stack = <<>>
    /\ ret = NoRet
    /\ vals = <<>>
    /\ seqs = <<>>
    /\ calls = <<>>
    /\ runs = <<>>
    /\ crashed = FALSE

\* ExpressionWrapper.build_expr_list(result_op_seq, op_map, cls_map, ...)
Build ==
    /\ phase = "pool"
    /\ built' = build_expr_list(bpool)
    /\ phase' = "listed"
    /\ UNCHANGED <<scn, exprs, dicts, wrappers, gens, stack, ret, vals, seqs,
                   calls, runs, crashed, bpool>>

SpecBuild == InitBuild /\ [][Build]_vars

\* the Expressions of the tree of expr, expr included
RECURSIVE Nodes(_)
Nodes(expr) ==
    {expr} \cup UNION {Nodes(expr.param_map[i].expr) : i \in 1..Len(expr.param_map)}

\* C9: in every Expression build_expr_list returns, two Expressions of the
\* tree that produce the same type have the same operator.
C9_GraphValidity ==
    phase = "listed" =>
        \A i \in 1..Len(built.exprs) :
            \A n1 \in Nodes(built.exprs[i]) : \A n2 \in Nodes(built.exprs[i]) :
                value_type(n1.op) = value_type(n2.op) => n1.op = n2.op

\* C9: the pool holds two operators producing Base and an operator with two
\* Base parameters, and the list returned holds an Expression of it
C9_Witness ==
    /\ phase = "listed"
    /\ {"mk_base", "mk_base2", "f"} \subseteq bpool.pool
    /\ bpool.goal = "F"
    /\ built.err = "none"
    /\ \E i \in 1..Len(built.exprs) :
          /\ built.exprs[i].op = "f"
          /\ built.exprs[i].param_map[1].expr.op = "mk_base2"
          /\ built.exprs[i].param_map[2].expr.op = "mk_base2"

\* C10: no Expression build_expr_list returns holds two operators whose
\* produced types are two different classes that cls_map lists as
\* compatible with one class.
C10_NoCompatibleTypes ==
    phase = "listed" =>
        \A i \in 1..Len(built.exprs) :
            \A n1 \in Nodes(built.exprs[i]) : \A n2 \in Nodes(built.exprs[i]) :
                value_type(n1.op) # value_type(n2.op) =>
                    ~ \E cls \in Classes :
                         /\ value_type(n1.op) \in Range(CallerClsMap(bpool)[cls])
                         /\ value_type(n2.op) \in Range(CallerClsMap(bpool)[cls])

----------------------------------------------------------------------------
(* Cycle and unresolved-dependency policies *)

\* the pool holds the two operators that need each other's type, and the
\* result operators are one of them
CyclicPool ==
    /\ phase = "listed"
    /\ {"cyc_a", "cyc_b"} \subseteq bpool.pool
    /\ bpool.goal \in {"CA", "CB"}

\* C11: on a pool where cyc_a needs the type of cyc_b and cyc_b the type of
\* cyc_a, build_expr_list with cycle_handler = 'raise' raises CycleError and
\* the path of the error names both operators.
C11_CycleRaises ==
    (CyclicPool /\ bpool.cycle_handler = "raise") =>
        /\ built.err = "CycleError"
        /\ {"cyc_a", "cyc_b"} \subseteq Range(built.path)

\* C11: build_expr_list was asked for CA on the cyclic pool with the fatal
\* policy, and the error names cyc_a -> cyc_b -> cyc_a
C11_Witness ==
    /\ CyclicPool
    /\ bpool.goal = "CA"
    /\ bpool.cycle_handler = "raise"
    /\ built.path = <<"cyc_a", "cyc_b", "cyc_a">>

\* C12: on the same cyclic pool, build_expr_list with cycle_handler =
\* 'ignore' raises nothing and returns an empty list.
C12_CycleIgnored ==
    (CyclicPool /\ bpool.cycle_handler = "ignore") =>
        /\ built.err = "none"
        /\ built.exprs = <<>>

\* C12: build_expr_list has returned on the cyclic pool with the ignore
\* policy, no handler having been called
C12_Witness ==
    /\ CyclicPool
    /\ bpool.cycle_handler = "ignore"
    /\ built.err = "none"
    /\ built.handled = <<>>

\* the calls made to the cycle handler
CycleCalls == SelectSeq(built.handled, LAMBDA h : h.handler = "cycle")

\* param_op is an operator _build_expr tries for a parameter of op
IsCandidate(param_op, op) ==
    \E i \in 1..Len(PrototypeParams(op)) :
        value_type(param_op) \in
            Range(CallerClsMap(bpool)[PrototypeParams(op)[i].cls])

\* the position at which the first operator of chain ops occurs again
ClosesAt(ops) == CHOOSE k \in 2..Len(ops) :
                    /\ ops[k] = ops[1]
                    /\ \A j \in 2..(k - 1) : ops[j] # ops[1]

\* C13 (as stated): a callable cycle_handler is given the operators forming
\* the cycle and no operator outside it: the chain ends where the operator
\* it starts with occurs again.
C13_ExactCycle ==
    (phase = "listed" /\ bpool.cycle_handler = "callback") =>
        \A i \in 1..Len(CycleCalls) :
            LET ops == CycleCalls[i].ops
            IN  /\ ops[1] \in Range(Tail(ops))
                /\ ClosesAt(ops) = Len(ops)

\* C13 (amended): a callable cycle_handler is given the whole path of
\* operators being expanded, from the operator found again down to the
\* result operator: the chain starts with the operator found again, every
\* operator of it is a candidate for a parameter of the next one, no other
\* operator occurs twice, and it ends with an operator of result_op_seq
\* (which may be outside the cycle).  No CycleError is raised and
\* build_expr_list ends as it does with cycle_handler = 'ignore'.
C13_CallbackReceivesPath ==
    (phase = "listed" /\ bpool.cycle_handler = "callback") =>
        /\ built.err # "CycleError"
        /\ \A i \in 1..Len(CycleCalls) :
              LET ops == CycleCalls[i].ops
              IN  /\ ops[1] \in Range(Tail(ops))
                  /\ \A j \in 1..(Len(ops) - 1) : IsCandidate(ops[j], ops[j + 1])
                  /\ \A j \in 2..Len(ops) : \A k \in 2..Len(ops) :
                        ops[j] = ops[k] => j = k
                  /\ ops[Len(ops)] \in Range(ResultOpSeq(bpool))
        /\ LET ignoring == build_expr_list([bpool EXCEPT !.cycle_handler = "ignore"])
           IN  /\ built.err = ignoring.err
               /\ built.exprs = ignoring.exprs

\* C13: the handler was called with the chain add_one -> add_one -> show,
\* whose last operator is not part of the cycle
C13_Witness ==
    /\ phase = "listed"
    /\ bpool.cycle_handler = "callback"
    /\ \E i \in 1..Len(CycleCalls) :
          CycleCalls[i].ops = <<"add_one", "add_one", "show">>

\* no operator of the pool produces a class compatible with the class of a
\* required parameter of op
Unresolved(op) ==
    \E i \in 1..Len(PrototypeParams(op)) :
        LET p == PrototypeParams(op)[i]
        IN  /\ ~p.optional
            /\ \A c \in Range(CallerClsMap(bpool)[p.cls]) :
                  ~ \E o \in bpool.pool : value_type(o) = c

\* the operators of the pool that the result operators lead to: a result
\* operator, or a candidate for a parameter of an operator already led to
\* that is not itself unresolved
RECURSIVE LedTo(_)
LedTo(found) ==
    LET more == {o \in bpool.pool \ found :
                    \E op \in found : ~Unresolved(op) /\ IsCandidate(o, op)}
    IN  IF more = {} THEN found ELSE LedTo(found \cup more)

Reached == LedTo(Range(ResultOpSeq(bpool)))

\* C14: when building leads to an operator with a required parameter that
\* nothing produces, build_expr_list with non_produced_handler = 'raise'
\* raises NoOperatorError for such an operator, unless a CycleError was
\* raised before it was reached.
C14_NoOperatorRaises ==
    (/\ phase = "listed"
     /\ bpool.non_produced_handler = "raise"
     /\ \E op \in Reached : Unresolved(op)) =>
        /\ built.err \in {"NoOperatorError", "CycleError"}
        /\ built.err = "CycleError" => bpool.cycle_handler = "raise"
        /\ built.err = "NoOperatorError" => Unresolved(Head(built.path))

\* C14: NoOperatorError was raised for need while it was built as a
\* parameter of f
C14_Witness ==
    /\ phase = "listed"
    /\ bpool.non_produced_handler = "raise"
    /\ built.err = "NoOperatorError"
    /\ built.path = <<"need", "f">>

\* the operators of the pool that produce a class compatible with the
\* class of parameter p
ProducersFor(p) ==
    {o \in bpool.pool : value_type(o) \in Range(CallerClsMap(bpool)[p.cls])}

\* the Expression node n has no entry for an optional parameter of its
\* operator that operators of the pool produce
OmitsProduced(n) ==
    \E i \in 1..Len(PrototypeParams(n.op)) :
        LET p == PrototypeParams(n.op)[i]
        IN  /\ p.optional
            /\ ProducersFor(p) # {}
            /\ \A j \in 1..Len(n.param_map) : n.param_map[j].param # p.param

\* C15: with non_produced_handler = 'ignore', NoOperatorError is not
\* raised, no Expression returned holds an operator with a required
\* parameter that nothing produces, and the Expressions that use the other
\* candidates are returned: a list that is returned is the one
\* build_expr_list returns when these operators are not in the pool, less
\* the Expressions that leave out an optional parameter these operators
\* are candidates for.
C15_NonProducedIgnored ==
    (phase = "listed" /\ bpool.non_produced_handler = "ignore") =>
        /\ built.err # "NoOperatorError"
        /\ \A i \in 1..Len(built.exprs) :
              \A n \in Nodes(built.exprs[i]) : ~Unresolved(n.op)
        /\ LET without == build_expr_list(
                   [bpool EXCEPT !.pool = {o \in @ : ~Unresolved(o)}])
               Kept(e) == \A n \in Nodes(e) : ~OmitsProduced(n)
           IN  built.err = "none" =>
                  /\ without.err = "none"
                  /\ built.exprs = SelectSeq(without.exprs, Kept)

\* C15: need, which cannot be built, is a candidate for the parameters of
\* f next to mk_base, and f(mk_base, mk_base) is returned
C15_Witness ==
    /\ phase = "listed"
    /\ bpool.non_produced_handler = "ignore"
    /\ {"need", "mk_base", "f"} \subseteq bpool.pool
    /\ bpool.goal = "F"
    /\ built.err = "none"
    /\ \E i \in 1..Len(built.exprs) :
          /\ built.exprs[i].op = "f"
          /\ built.exprs[i].param_map[1].expr.op = "mk_base"
          /\ built.exprs[i].param_map[2].expr.op = "mk_base"

\* C16: the optional parameter m of opt, whose type nothing produces, is
\* not in the param_map of any Expression of opt; the handler is not called
\* for it, and NoOperatorError is raised for opt only when nothing produces
\* its required parameter x; and
\* with mk_base as the only other operator, opt(x=mk_base()) is what is
\* returned, under every non_produced_handler.
C16_OptionalOmitted ==
    (phase = "listed" /\ "opt" \in bpool.pool) =>
        /\ \A i \in 1..Len(built.exprs) :
              \A n \in Nodes(built.exprs[i]) :
                  n.op = "opt" =>
                      \A j \in 1..Len(n.param_map) : n.param_map[j].param # "m"
        /\ \A i \in 1..Len(built.handled) :
              built.handled[i].handler = "non_produced" =>
                  ~(built.handled[i].op = "opt" /\ built.handled[i].param = "m")
        /\ (built.err = "NoOperatorError" /\ Head(built.path) = "opt") =>
              Unresolved("opt")
        /\ (bpool.pool = {"opt", "mk_base"} /\ bpool.goal = "O") =>
              /\ built.err = "none"
              /\ built.handled = <<>>
              /\ built.exprs =
                    <<BuiltExpression("opt",
                        <<[param |-> "x",
                           expr |-> BuiltExpression("mk_base", <<>>)]>>)>>

\* C16: opt was built under the fatal policy with its required parameter
\* only
C16_Witness ==
    /\ phase = "listed"
    /\ bpool.pool = {"opt", "mk_base"}
    /\ bpool.goal = "O"
    /\ bpool.non_produced_handler = "raise"
    /\ Len(built.exprs) = 1
    /\ Len(built.exprs[1].param_map) = 1

----------------------------------------------------------------------------
(* Specification SpecE2E: build_expr_list on a pool of make_int, add_one   *)
(* and show, then the Expressions it returns prepared and executed as in   *)
(* Spec.                                                                   *)

\* the pools of SpecE2E
E2EConfigs == {c \in PoolConfigs : c.pool \subseteq Computing}

\* The Expression objects of the tree expr of _build_expr put in the heap
\* h = [exprs, dicts, r], every Expression with its own param_map; r is the
\* Expression made for expr
RECURSIVE LoadExpr(_, _)
RECURSIVE LoadParams(_, _, _, _)
LoadParams(h, param_map, i, ids) ==
    IF i > Len(param_map) THEN [h |-> h, ids |-> ids]
    ELSE LET h1 == LoadExpr(h, param_map[i].expr)
         IN  LoadParams(h1, param_map, i + 1, Append(ids, h1.r))

LoadExpr(h, expr) ==
    LET r == LoadParams(h, expr.param_map, 1, <<>>)
        id == Len(r.h.exprs) + 1
    IN  [exprs |-> Append(r.h.exprs, Expression(expr.op, Len(r.h.dicts) + 1,
                                          Len(r.h.exprs) + 1)),
         dicts |-> Append(r.h.dicts, r.ids),
         r |-> id]

\* the list build_expr_list returns, from its i-th Expression on
RECURSIVE LoadList(_, _, _, _)
LoadList(h, expr_list, i, ws) ==
    IF i > Len(expr_list) THEN [h |-> h, ws |-> ws]
    ELSE LET h1 == LoadExpr(h, expr_list[i])
         IN  LoadList(h1, expr_list, i + 1, Append(ws, h1.r))

InitE2E ==
    /\ scn = "e2e"
    /\ phase = "pool"
    /\ bpool \in E2EConfigs
    /\ built = BuildResult("none", <<>>, <<>>, <<>>)
    /\ exprs = <<>>
    /\ dicts = <<>>
    /\ wrappers = <<>>
    /\ gens = <<>>
    /\ stack = <<>>
    /\ ret = NoRet
    /\ vals = <<>>
    /\ seqs = <<>>
    /\ calls = <<>>
    /\ runs = <<>>
    /\ crashed = FALSE

\* build_expr_list has returned expr_list: its Expressions are the
\* expr_wrapper_list to execute
Listed ==
    /\ phase = "listed"
    /\ built.err = "none"
    /\ LET r == LoadList([exprs |-> <<>>, dicts |-> <<>>, r |-> 0],
                         built.exprs, 1, <<>>)
       IN  /\ exprs' = r.h.exprs
           /\ dicts' = r.h.dicts
           /\ wrappers' = r.ws
    /\ phase' = "built"
    /\ UNCHANGED <<scn, gens, stack, ret, vals, seqs, calls, runs, crashed,
                   bpool, built>>

NextE2E ==
    \/ Build
    \/ Listed
    \/ Prepare
    \/ StartExecute
    \/ Pull
    \/ ExecuteStep
    \/ ProductStep
    \/ IterStep

SpecE2E == InitE2E /\ [][NextE2E]_vars

\* the pool of the end-to-end scenario, str being asked for
ScenarioPool ==
    /\ bpool.pool = {"make_int", "add_one", "show"}
    /\ bpool.goal = "str"

\* the Expressions op(), op(x=inner)
Leaf(op) == BuiltExpression(op, <<>>)
OneParam(op, inner) == BuiltExpression(op, <<[param |-> "x", expr |-> inner]>>)

\* the executions of top-level Expressions that have finished
FinishedRuns == {i \in 1..Len(runs) : gens[runs[i].g].pc = "done"}

\* C17 (as stated): on the pool make_int, add_one, show with str asked for,
\* build_expr_list returns exactly show(add_one(make_int())), and an
\* execution of it yields exactly one ExprValue, with value "6".
C17_EndToEnd ==
    (ScenarioPool /\ phase # "pool") =>
        /\ built.err = "none"
        /\ built.exprs = <<OneParam("show", OneParam("add_one", Leaf("make_int")))>>
        /\ \A i \in FinishedRuns :
              /\ Len(Yielded(gens[runs[i].g])) = 1
              /\ vals[Yielded(gens[runs[i].g])[1]].value = StrOf(6)

\* C17 (amended): on that pool, build_expr_list raises CycleError (add_one
\* needs the type it produces) under cycle_handler = 'raise'; under the
\* other cycle policies it returns exactly show(make_int()), and every
\* execution of it yields exactly one ExprValue, with value "5" and no
\* exception.
C17_ShowMakeInt ==
    (ScenarioPool /\ phase # "pool") =>
        IF bpool.cycle_handler = "raise"
        THEN /\ built.err = "CycleError"
             /\ built.path = <<"add_one", "add_one", "show">>
        ELSE /\ built.err = "none"
             /\ built.exprs = <<OneParam("show", Leaf("make_int"))>>
             /\ \A i \in FinishedRuns :
                   /\ Len(Yielded(gens[runs[i].g])) = 1
                   /\ vals[Yielded(gens[runs[i].g])[1]].value = StrOf(5)
                   /\ vals[Yielded(gens[runs[i].g])[1]].excep = NoValue

\* C17: the Expression built on the pool of the scenario has been executed
\* to its end
C17_Witness ==
    /\ ScenarioPool
    /\ phase = "batch"
    /\ FinishedRuns # {}
    /\ \E v \in 1..Len(vals) : vals[v].value = StrOf(5)

----------------------------------------------------------------------------
(* The value store and laziness, on Spec *)

\* the ExprValue was made by the short-circuit of _execute, or replayed
\* from the ExprValueSeq the short-circuit recorded
IsShortCircuit(v) == ~IsComputed(v)

\* the ExprValue stands for a generator function that yielded nothing
IsEmptyGenerator(v) ==
    /\ IsComputed(v)
    /\ OpKind(exprs[vals[v].expr].op) = "gen"
    /\ seqs[vals[v].seq].src.n = 0
    /\ ~seqs[vals[v].seq].raised

\* C18 (as stated): every ExprValue has exactly one of value and excep
\* equal to NoValue.
C18_ExactlyOne ==
    \A v \in 1..Len(vals) :
        (vals[v].value = NoValue) # (vals[v].excep = NoValue)

\* C18 (amended): no ExprValue has both a value and an exception; both are
\* NoValue exactly for the ExprValues of short-circuits (a parameter missing
\* or NoValue) and of generator functions that yielded nothing; every other
\* ExprValue has exactly one of the two equal to NoValue.
C18_AtMostOne ==
    \A v \in 1..Len(vals) :
        /\ vals[v].value = NoValue \/ vals[v].excep = NoValue
        /\ (vals[v].value = NoValue /\ vals[v].excep = NoValue)
              <=> (IsShortCircuit(v) \/ IsEmptyGenerator(v))

\* C18: there are an ExprValue with a value, one with an exception, and a
\* short-circuit one with neither
C18_Witness ==
    /\ \E v \in 1..Len(vals) : vals[v].value # NoValue /\ vals[v].excep = NoValue
    /\ \E v \in 1..Len(vals) : vals[v].value = NoValue /\ vals[v].excep # NoValue
    /\ \E v \in 1..Len(vals) :
          IsShortCircuit(v) /\ vals[v].value = NoValue /\ vals[v].excep = NoValue

\* C19: no step of the engine removes an ExprValueSeq, or removes, replaces
\* or reorders an entry of a value_list: the value_list before the step is
\* a prefix of the value_list after it.
C19_AppendOnly ==
    [][/\ Len(seqs) <= Len(seqs')
       /\ \A s \in 1..Len(seqs) :
             IsPrefix(seqs[s].value_list, seqs'[s].value_list)]_vars

\* C19: a value_list has grown to two entries, and an execution started
\* after that has finished
C19_Witness ==
    /\ \E s \in 1..Len(seqs) : Len(seqs[s].value_list) >= 2
    /\ Len(runs) >= 2
    /\ LastRunDone

\* the driver has started the first execution and asked for at most one
\* ExprValue, which it may have got
FirstPullOnly ==
    /\ phase = "batch"
    /\ Len(runs) = 1
    /\ \/ Len(gens[runs[1].g].yl) = 0
       \/ /\ Len(gens[runs[1].g].yl) = 1
          /\ stack = <<>>
          /\ gens[runs[1].g].pc # "done"

\* C20: execute() having been called and nothing pulled, no operator has
\* been invoked and no ExprValue made; and as long as the consumer has
\* pulled the first ExprValue only, every Expression has been invoked at
\* most once and the callable of every multi-valued operator has yielded at
\* most one value and has not been resumed after it.
C20_Laziness ==
    /\ (/\ phase = "batch"
        /\ Len(runs) = 1
        /\ gens[runs[1].g].pc = "start"
        /\ stack = <<>>) =>
           (calls = <<>> /\ vals = <<>> /\ seqs = <<>>)
    /\ FirstPullOnly =>
          /\ \A i \in 1..Len(calls) : \A j \in 1..Len(calls) :
                calls[i].e = calls[j].e => i = j
          /\ \A s \in 1..Len(seqs) :
                (seqs[s].src.kind = "op" /\ OpKind(exprs[seqs[s].expr].op) = "gen") =>
                    /\ seqs[s].src.n <= 1
                    /\ Len(seqs[s].value_list) <= 1
                    /\ ~(seqs[s].src.n = 1 /\ seqs[s].src.fin)

\* C20: the consumer has got the first ExprValue of the root of the
\* diamond, whose multi-valued operator has yielded one value and is
\* left suspended
C20_Witness ==
    /\ FirstPullOnly
    /\ scn = "diamond"
    /\ Len(gens[runs[1].g].yl) = 1
    /\ \E s \in 1..Len(seqs) :
          /\ OpKind(exprs[seqs[s].expr].op) = "gen"
          /\ seqs[s].src.n = 1
          /\ ~seqs[s].src.fin

----------------------------------------------------------------------------
(* Short-circuits and the value store, on Spec *)

\* the ExprValueSeqs of the result_list of Expression e that the
\* short-circuit of _execute recorded (ExprValueSeq.from_one_expr_val)
ShortCircuitSeqs(e) ==
    {s \in Range(exprs[e].result_list) : seqs[s].src.kind = "list"}

\* reusable_param_computed: every reusable parameter of e is a key of pmap
IsCompleteBinding(e, pmap) ==
    \A p \in Range(ParamPositions(Mach, e, TRUE)) : pmap[p] # 0

\* C21 (as stated): the result_list of a reusable Expression never holds
\* two ExprValueSeqs recorded by a short-circuit for the same binding of
\* reusable-parameter values, the binding being complete or not.
C21_NoSecondSeq ==
    \A e \in DOMAIN exprs :
        OpReusable(exprs[e].op) =>
            \A s1 \in ShortCircuitSeqs(e) : \A s2 \in ShortCircuitSeqs(e) \ {s1} :
                ReusableBinding(e, seqs[s1].param_expr_val_map)
                # ReusableBinding(e, seqs[s2].param_expr_val_map)

\* C21 (amended): for a reusable Expression, a short-circuit with a complete
\* binding (every reusable parameter has an ExprValue) is recorded once and
\* replayed whenever the binding comes again, the ExprValue yielded then
\* being one of the recorded ExprValueSeq; a short-circuit with an incomplete binding is recorded
\* again by every execution and its ExprValueSeq is never replayed.
C21_CompleteBindingReplayed ==
    \A e \in DOMAIN exprs :
        OpReusable(exprs[e].op) =>
            /\ \A s1 \in ShortCircuitSeqs(e) : \A s2 \in ShortCircuitSeqs(e) \ {s1} :
                  (ReusableBinding(e, seqs[s1].param_expr_val_map)
                   = ReusableBinding(e, seqs[s2].param_expr_val_map))
                  => ~IsCompleteBinding(e, seqs[s1].param_expr_val_map)
            /\ \A s \in ShortCircuitSeqs(e) :
                  ~IsCompleteBinding(e, seqs[s].param_expr_val_map)
                  => seqs[s].value_list = <<>>
            /\ \A g \in ExecFrames :
                  gens[g].e = e =>
                      \A v \in Range(Yielded(gens[g])) :
                          (~IsComputed(v) /\ vals[v].seq # 0) =>
                              /\ vals[v].seq \in ShortCircuitSeqs(e)
                              /\ IsCompleteBinding(e, vals[v].param_expr_val_map)

\* C21: a reusable Expression short-circuited with a complete binding, then
\* was executed again to the end: the second execution yielded the
\* ExprValue of the one ExprValueSeq the first had recorded
C21_Witness ==
    \E g1 \in ExecFrames : \E g2 \in ExecFrames \ {g1} :
        /\ gens[g1].e = gens[g2].e
        /\ OpReusable(exprs[gens[g1].e].op)
        /\ gens[g1].pc = "done" /\ gens[g2].pc = "done"
        /\ Cardinality(ShortCircuitSeqs(gens[g1].e)) = 1
        /\ Len(exprs[gens[g1].e].result_list) = 1
        /\ \E s \in ShortCircuitSeqs(gens[g1].e) :
              /\ seqs[s].by = g1
              /\ IsCompleteBinding(gens[g1].e, seqs[s].param_expr_val_map)
              /\ \E v \in Range(Yielded(gens[g2])) : vals[v].seq = s

\* the ExprValueSeqs of multi-valued operators whose generator function
\* has ended without having yielded anything nor raised
EmptyGeneratorSeqs ==
    {s \in 1..Len(seqs) :
        /\ seqs[s].src.kind = "op"
        /\ OpKind(exprs[seqs[s].expr].op) = "gen"
        /\ seqs[s].src.fin
        /\ seqs[s].src.n = 0
        /\ ~seqs[s].raised}

\* C22: the ExprValueSeq of a multi-valued operator whose generator
\* function yielded nothing holds exactly one ExprValue, whose value is
\* NoValue (and which holds no exception), and an execution of its
\* Expression that has ended has yielded that ExprValue and no other.
C22_EmptyGeneratorPlaceholder ==
    \A s \in EmptyGeneratorSeqs :
        /\ Len(seqs[s].value_list) = 1
        /\ vals[seqs[s].value_list[1]].value = NoValue
        /\ vals[seqs[s].value_list[1]].excep = NoValue
        /\ \A g \in ExecFrames :
              (/\ gens[g].e = seqs[s].expr
               /\ gens[g].pc = "done"
               /\ ParamMap(exprs, dicts, gens[g].e) = <<>>)
              => Yielded(gens[g]) = seqs[s].value_list

\* C22: a generator function yielded nothing, the execution of its
\* Expression has ended, and a consumer has got the one NoValue ExprValue
C22_Witness ==
    \E s \in EmptyGeneratorSeqs :
        /\ seqs[s].iterator = "None"
        /\ \E g \in ExecFrames : gens[g].e = seqs[s].expr /\ gens[g].pc = "done"
        /\ \E v \in 1..Len(vals) :
              /\ vals[v].expr # seqs[s].expr
              /\ seqs[s].value_list[1] \in Range(vals[v].param_expr_val_map)

\* Expression.get_all_vals: the ExprValues of the value_lists of the
\* ExprValueSeqs of self.result_list
get_all_vals(e) ==
    UNION {Range(seqs[s].value_list) : s \in Range(exprs[e].result_list)}

\* C29: every ExprValue an execution has yielded is in the value_list of an
\* ExprValueSeq of the result_list of its Expression, so that get_all_vals()
\* returns it; the ExprValue of a short-circuit included.
C29_YieldedIsStored ==
    \A g \in ExecFrames :
        \A v \in Range(Yielded(gens[g])) :
            /\ vals[v].expr = gens[g].e
            /\ v \in get_all_vals(gens[g].e)

----------------------------------------------------------------------------
(* Completeness of _build_expr, on SpecBuild *)

\* the sequences that take their i-th element from the i-th set of sets
RECURSIVE Choices(_)
Choices(sets) ==
    IF sets = <<>> THEN {<<>>}
    ELSE {<<h>> \o rest : h \in Head(sets), rest \in Choices(Tail(sets))}

\* The complete combinations for operator op below op_stack, each as the
\* Expression it stands for: for every parameter that is kept, one class
\* of cls_map[annotation], one operator of op_map[class] and one complete
\* combination for that operator.  An operator met again on op_stack, or
\* with a required parameter no class is available for, has none.
RECURSIVE CompleteCombinations(_, _, _, _)
CompleteCombinations(op, op_map, cls_map, op_stack) ==
    LET param_map == PrototypeParams(op)
        available == {i \in 1..Len(param_map) : cls_map[param_map[i].cls] # <<>>}
        kept == SelectSeq([i \in 1..Len(param_map) |-> i],
                          LAMBDA i : i \in available \/ ~IsOptional(param_map[i]))
        Candidates(i) ==
            UNION {CompleteCombinations(param_op, op_map, cls_map, <<op>> \o op_stack) :
                      param_op \in UNION {Range(op_map[cls]) :
                                             cls \in Range(cls_map[param_map[i].cls])}}
    IN  IF op \in Range(op_stack) THEN {}
        ELSE IF \E i \in Range(kept) : i \notin available THEN {}
        ELSE {BuiltExpression(op, [i \in 1..Len(kept) |->
                                      [param |-> param_map[kept[i]].param,
                                       expr |-> choice[i]]]) :
                 choice \in Choices([i \in 1..Len(kept) |-> Candidates(kept[i])])}

\* the generator of _build_expr for the i-th operator of result_op_seq, run
\* to its end
BuiltFor(i) ==
    build_expr(ResultOpSeq(bpool)[i], BuildOpMap(bpool), BuildClsMap(bpool), <<>>,
               bpool.non_produced_handler, bpool.cycle_handler)

\* C28: when no exception leaves it, the generator of _build_expr for an
\* operator of result_op_seq yields the Expressions of the complete
\* combinations of that operator, every one of them and each once.
C28_BuilderCompleteness ==
    phase = "listed" =>
        \A i \in 1..Len(ResultOpSeq(bpool)) :
            BuiltFor(i).err = "none" =>
                /\ Range(BuiltFor(i).exprs)
                   = CompleteCombinations(ResultOpSeq(bpool)[i], BuildOpMap(bpool),
                                          BuildClsMap(bpool), <<>>)
                /\ \A j \in 1..Len(BuiltFor(i).exprs) :
                      \A k \in 1..Len(BuiltFor(i).exprs) :
                          BuiltFor(i).exprs[j] = BuiltFor(i).exprs[k] => j = k

\* C28: an operator with two parameters, each with three candidate
\* operators over two candidate classes, has given nine Expressions
C28_Witness ==
    /\ phase = "listed"
    /\ bpool.subclass
    /\ \E i \in 1..Len(ResultOpSeq(bpool)) :
          /\ ResultOpSeq(bpool)[i] = "f"
          /\ BuiltFor(i).err = "none"
          /\ Len(BuiltFor(i).exprs) = 9
          /\ \A j \in 1..9 : Len(BuiltFor(i).exprs[j].param_map) = 2

----------------------------------------------------------------------------
(* PrebuiltOperators and the operators of the internal classes, on         *)
(* SpecSpecial                                                             *)

\* C30: no execution fails, and every execution that has come to its end
\* has yielded at least one ExprValue, whatever its Expression is built
\* from (a PrebuiltOperator without objects included).
C30_AtLeastOneExprValue ==
    /\ ~crashed
    /\ \A g \in ExecFrames : gens[g].pc = "done" => Yielded(gens[g]) # <<>>

\* the ExprValues of the Consumer operator
ConsumerVals == {v \in 1..Len(vals) : exprs[vals[v].expr].op = "Consumer"}

\* the evaluation stack of the execution that made ExprValue v: the
\* Expressions being executed above it, the root first
EvaluationStack(v) == gens[seqs[vals[v].seq].by].cs

\* C27: the Consumer operator is never invoked; the value of its ExprValue
\* is None when the Expression declaring the Consumer parameter is the root
\* of the evaluation, and otherwise the callable of the Expression that was
\* consuming the result of the declaring Expression when the ExprValue was
\* made.
C27_ConsumerValue ==
    /\ \A i \in 1..Len(calls) : exprs[calls[i].e].op # "Consumer"
    /\ \A v \in ConsumerVals :
          LET cs == EvaluationStack(v)
              declaring == cs[Len(cs)]
          IN  /\ vals[v].excep = NoValue
              /\ vals[v].expr \in Range(ParamMap(exprs, dicts, declaring))
              /\ IF \E i \in 1..Len(runs) : runs[i].root = declaring /\ Len(cs) = 1
                 THEN vals[v].value = NoneValue
                 ELSE /\ declaring \in Range(ParamMap(exprs, dicts, cs[Len(cs) - 1]))
                      /\ vals[v].value = CallableValue(exprs[cs[Len(cs) - 1]].op)

\* C27: the batch is done, one Consumer ExprValue names the callable b that
\* consumed u, and the one made for the root w is None
C27_Witness ==
    /\ scn = "context"
    /\ BatchDone
    /\ \E v \in ConsumerVals : vals[v].value = CallableValue("mk_b")
    /\ \E v \in ConsumerVals :
          /\ vals[v].value = NoneValue
          /\ exprs[EvaluationStack(v)[1]].op = "mk_w"

\* C26: for every ExprValue an execution of a top-level Expression has
\* yielded, every ExprValue of the ExprData operator among the ExprValues
\* it was built from holds the data object of that top-level Expression.
C26_RootData ==
    \A i \in 1..Len(runs) :
        \A v \in Range(Yielded(gens[runs[i].g])) :
            \A u \in Range(get_parent_expr_vals(Mach, v)) :
                exprs[vals[u].expr].op = "ExprData" =>
                    vals[u].value = DataValue(exprs[runs[i].root].data)

----------------------------------------------------------------------------
(* The product of the alternatives of the parameters, on SpecProduct *)

\* the ExprValues with a value among those the execution h has yielded, in
\* order (the alternatives that did not fail)
GoodVals(h) == SelectSeq(Yielded(gens[h]), LAMBDA v : vals[v].value # NoValue)

\* the values bound to the reusable parameters of its Expression in the
\* param_expr_val_map pmap, all of them being keys
BoundValues(e, pmap) ==
    LET rp == ParamPositions(Mach, e, TRUE)
    IN  [k \in 1..Len(rp) |-> vals[pmap[rp[k]]].value]

\* the executions that have ended, of Expressions of a single-valued
\* operator all of whose parameters are reusable, with at least two of them
ProductExecutions ==
    {g \in ExecFrames :
        /\ gens[g].pc = "done"
        /\ OpKind(exprs[gens[g].e].op) = "func"
        /\ ParamPositions(Mach, gens[g].e, FALSE) = <<>>
        /\ Len(gens[g].gl) >= 2}

\* C24: an execution of an Expression with independent reusable parameters
\* that has ended has yielded, failures left out, one ExprValue for each
\* element of the cartesian product of the alternatives with a value of
\* its parameters, in the order of the product, no more and no less; the
\* operator of each parameter has been invoked once and each alternative
\* was yielded once by the execution of its parameter.
C24_CartesianProduct ==
    \A g \in ProductExecutions :
        LET e == gens[g].e
            gl == gens[g].gl
            comp == SelectSeq(Yielded(gens[g]), IsComputed)
            alternatives == [k \in 1..Len(gl) |->
                               [j \in 1..Len(GoodVals(gl[k])) |->
                                   vals[GoodVals(gl[k])[j]].value]]
        IN  /\ [i \in 1..Len(comp) |-> BoundValues(e, vals[comp[i]].param_expr_val_map)]
               = Product(alternatives)
            /\ \A k \in 1..Len(gl) :
                  /\ Cardinality({i \in 1..Len(calls) : calls[i].e = gens[gl[k]].e}) <= 1
                  /\ \A i \in 1..Len(gens[gl[k]].yl) : \A j \in 1..Len(gens[gl[k]].yl) :
                        gens[gl[k]].yl[i] = gens[gl[k]].yl[j] => i = j

\* C24: both parameters of p have yielded two alternatives with a value,
\* and the execution of p has ended having yielded four ExprValues
C24_Witness ==
    \E g \in ProductExecutions :
        /\ \A k \in 1..2 : Len(GoodVals(gens[g].gl[k])) = 2
        /\ Len(SelectSeq(Yielded(gens[g]), IsComputed)) = 4

\* the alternatives that failed among those the execution h has yielded
FailedVals(h) == {v \in Range(Yielded(gens[h])) : vals[v].value = NoValue}

\* C23: when the execution of an Expression with independent reusable
\* parameters has ended, every failed alternative of a parameter is the
\* ExprValue of that parameter in a NoValue ExprValue it has yielded, for
\* which the operator was not invoked; and the operator has been invoked
\* for every combination of alternatives that did not fail.
C23_SiblingsUnaffected ==
    \A g \in ProductExecutions :
        LET e == gens[g].e
            gl == gens[g].gl
            rp == ParamPositions(Mach, e, TRUE)
        IN  /\ \A k \in 1..Len(gl) : \A a \in FailedVals(gl[k]) :
                  \E v \in Range(Yielded(gens[g])) :
                      /\ vals[v].value = NoValue
                      /\ ~IsComputed(v)
                      /\ vals[v].param_expr_val_map[rp[k]] = a
            /\ \A v \in Range(Yielded(gens[g])) :
                  (\E k \in 1..Len(gl) :
                      vals[v].param_expr_val_map[rp[k]] \in FailedVals(gl[k]))
                  => vals[v].value = NoValue /\ ~IsComputed(v)
            /\ \A choice \in Choices([k \in 1..Len(gl) |-> Range(GoodVals(gl[k]))]) :
                  \E i \in 1..Len(calls) :
                      /\ calls[i].e = e
                      /\ BoundValues(e, seqs[calls[i].s].param_expr_val_map)
                         = [k \in 1..Len(gl) |-> vals[choice[k]].value]

\* C23: the second parameter of p yielded a value and then failed, the
\* first yielded two values: the execution of p has ended having yielded
\* two NoValue ExprValues for the failure, and p was invoked for the other
\* two combinations
C23_Witness ==
    \E g \in ProductExecutions :
        /\ Len(GoodVals(gens[g].gl[1])) = 2
        /\ Len(GoodVals(gens[g].gl[2])) = 1
        /\ FailedVals(gens[g].gl[2]) # {}
        /\ FailedVals(gens[g].gl[1]) = {}
        /\ Cardinality({v \in Range(Yielded(gens[g])) : vals[v].value = NoValue}) = 2
        /\ Len(SelectSeq(Yielded(gens[g]), IsComputed)) = 2

\* the executions of Expressions of non-reusable operators made to resolve
\* a parameter (consumer_expr_stack is not empty)
NonReusableParamExecutions ==
    {h \in ExecFrames : ~OpReusable(exprs[gens[h].e].op) /\ gens[h].cs # <<>>}

\* the ExprValueSeqs made when the operator of an Expression with a
\* non-reusable parameter was to be invoked
ComputedWithNonReusable ==
    {s \in 1..Len(seqs) :
        /\ seqs[s].src.kind = "op"
        /\ ParamPositions(Mach, seqs[s].expr, FALSE) # <<>>}

\* C25: an execution made to resolve a non-reusable parameter is asked for
\* one ExprValue only, a multi-valued operator behind it yielding at most
\* once; every binding the operator of the consumer is invoked for holds
\* ExprValues of its non-reusable parameters made for it by executions of
\* its own, shared with no other binding; and an execution of the
\* consumer that has ended has yielded one ExprValue for each alternative
\* of its reusable parameter, whatever the non-reusable one can yield.
C25_NonReusableFirstOnly ==
    /\ \A h \in NonReusableParamExecutions :
          /\ Len(gens[h].yl) <= 1
          /\ \A s \in 1..Len(seqs) :
                seqs[s].by = h =>
                    Len(seqs[s].value_list) <= 1 /\ seqs[s].src.n <= 1
    /\ \A s1 \in ComputedWithNonReusable :
          \A p \in Range(ParamPositions(Mach, seqs[s1].expr, FALSE)) :
              LET v == seqs[s1].param_expr_val_map[p]
              IN  /\ v # 0
                  /\ vals[v].seq # 0
                  /\ gens[seqs[vals[v].seq].by].cs
                     = Append(gens[seqs[s1].by].cs, seqs[s1].expr)
                  /\ \A s2 \in ComputedWithNonReusable \ {s1} :
                        v \notin Range(seqs[s2].param_expr_val_map)
    /\ \A g \in ExecFrames :
          (/\ gens[g].pc = "done"
           /\ OpKind(exprs[gens[g].e].op) = "func"
           /\ ParamPositions(Mach, gens[g].e, FALSE) # <<>>
           /\ Len(gens[g].gl) = 1)
          => Len(gens[g].yl) = Len(gens[gens[g].gl[1]].yl)

\* C25: q was invoked for two alternatives of its reusable parameter, each
\* time with an ExprValue of its own of the multi-valued non-reusable
\* parameter, whose generator function was left after its first value
C25_Witness ==
    \E s1 \in ComputedWithNonReusable : \E s2 \in ComputedWithNonReusable \ {s1} :
        /\ seqs[s1].expr = seqs[s2].expr
        /\ exprs[seqs[s1].expr].op = "mk_q"
        /\ Len(seqs[s1].value_list) = 1 /\ Len(seqs[s2].value_list) = 1
        /\ LET v1 == seqs[s1].param_expr_val_map[2]
               v2 == seqs[s2].param_expr_val_map[2]
           IN  /\ v1 # v2
               /\ vals[v1].value # NoValue /\ vals[v2].value # NoValue
               /\ ~seqs[vals[v1].seq].src.fin
               /\ OpKind(exprs[vals[v1].expr].op) = "gen"
        /\ \E g \in ExecFrames :
              /\ gens[g].e = seqs[s1].expr
              /\ gens[g].pc = "done"
              /\ Len(gens[g].yl) = 2

----------------------------------------------------------------------------
(* Specification SpecInterleaved: the prepared top-level Expressions are   *)
(* executed by consumers that do not wait for one another: execute() may   *)
(* be called again (up to MaxRuns times in all) while earlier generators   *)
(* are not exhausted, and next() is called on any of the generators that   *)
(* are not exhausted, in any order.                                        *)

InterleavedScenarios == {"memo", "nested"}

\* the consumers: each of them goes through one execution at a time
Consumers == 2

\* the largest number of calls of execute()
MaxRuns == 2

InitInterleaved == InitScenario(InterleavedScenarios)

\* expr.execute() on any prepared top-level Expression
StartAny ==
    /\ phase = "batch"
    /\ stack = <<>>
    /\ ~crashed
    /\ Len(runs) < MaxRuns
    /\ Cardinality({i \in 1..Len(runs) : gens[runs[i].g].pc # "done"}) < Consumers
    /\ \E w \in 1..Len(wrappers) :
          /\ gens' = Append(gens, ExecFrame(wrappers[w], <<>>))
          /\ runs' = Append(runs, [root |-> wrappers[w], g |-> Len(gens) + 1])
    /\ UNCHANGED <<scn, phase, exprs, dicts, wrappers, stack, ret, vals, seqs,
                   calls, crashed, bpool, built>>

\* next() on any generator execute() has returned
PullAny ==
    /\ phase = "batch"
    /\ stack = <<>>
    /\ ~crashed
    /\ \E i \in 1..Len(runs) :
          /\ gens[runs[i].g].pc # "done"
          /\ SetMach(CallNext(Mach, runs[i].g))
    /\ UNCHANGED <<scn, phase, dicts, wrappers, runs, bpool, built>>

NextInterleaved ==
    \/ Prepare
    \/ StartAny
    \/ PullAny
    \/ ExecuteStep
    \/ ProductStep
    \/ IterStep

SpecInterleaved == InitInterleaved /\ [][NextInterleaved]_vars

\* the ExprValueSeqs of the result_list of Expression e recorded for a
\* complete binding of its reusable parameters
CompleteSeqs(e) ==
    {s \in Range(exprs[e].result_list) :
        IsCompleteBinding(e, seqs[s].param_expr_val_map)}

\* C31: the assertion of the memo lookup never fails, and the result_list
\* of a reusable Expression never holds two ExprValueSeqs recorded for the
\* same complete binding of reusable-parameter values (two ExprValueSeqs
\* at all, when the Expression has no reusable parameter).
C31_OneSeqPerBinding ==
    /\ ~crashed
    /\ \A e \in DOMAIN exprs :
          OpReusable(exprs[e].op) =>
              /\ \A i \in 1..Len(exprs[e].result_list) :
                    \A j \in 1..Len(exprs[e].result_list) :
                        exprs[e].result_list[i] = exprs[e].result_list[j] => i = j
              /\ \A s1 \in CompleteSeqs(e) : \A s2 \in CompleteSeqs(e) \ {s1} :
                    ReusableBinding(e, seqs[s1].param_expr_val_map)
                    # ReusableBinding(e, seqs[s2].param_expr_val_map)

\* C31: two executions of one reusable Expression with a parameter are
\* under way at once, neither exhausted, and both have yielded an ExprValue
\* of the one ExprValueSeq recorded for a binding
C31_Witness ==
    \E i \in 1..Len(runs) : \E j \in 1..Len(runs) :
        /\ i # j
        /\ runs[i].root = runs[j].root
        /\ OpReusable(exprs[runs[i].root].op)
        /\ gens[runs[i].g].pc # "done" /\ gens[runs[j].g].pc # "done"
        /\ \E v \in Range(Yielded(gens[runs[i].g])) :
              /\ v \in Range(Yielded(gens[runs[j].g]))
              /\ vals[v].seq \in CompleteSeqs(runs[i].root)
              /\ ParamMap(exprs, dicts, runs[i].root) # <<>>

----------------------------------------------------------------------------
(* The memo lookup compares values *)

\* the executions of reusable Expressions that are going through a recorded
\* ExprValueSeq (yield from expr_val_seq.iter_expr_val())
Replaying ==
    {g \in ExecFrames :
        /\ OpReusable(exprs[gens[g].e].op)
        /\ gens[g].pc \in {"wait_iter", "y_iter"}}

\* the invocations of the operator of Expression e for the reusable values
\* beta
CallsFor(e, beta) ==
    {i \in 1..Len(calls) :
        /\ calls[i].e = e
        /\ ReusableBinding(e, seqs[calls[i].s].param_expr_val_map) = beta}

\* C32: the operator of a reusable Expression is invoked at most once for
\* a tuple of values of its reusable parameters, and an execution that goes
\* through an ExprValueSeq for a combination goes through the one recorded
\* for the values of the combination, whatever the ExprValue objects that
\* hold them, the operator having been invoked once at most for it.
C32_MatchByValue ==
    /\ \A e \in DOMAIN exprs :
          OpReusable(exprs[e].op) =>
              \A s \in Range(exprs[e].result_list) :
                  Cardinality(CallsFor(e,
                      ReusableBinding(e, seqs[s].param_expr_val_map))) <= 1
    /\ \A g \in Replaying :
          LET e == gens[g].e
              s == gens[gens[g].it].s
          IN  /\ seqs[s].expr = e
              /\ ReusableBinding(e, seqs[s].param_expr_val_map)
                 = ReusableBinding(e, gens[g].b)
              /\ \A s2 \in Range(exprs[e].result_list) :
                    ReusableBinding(e, seqs[s2].param_expr_val_map)
                    = ReusableBinding(e, gens[g].b) => s2 = s
              /\ Cardinality({i \in 1..Len(calls) : calls[i].s = s})
                 <= (IF seqs[s].src.kind = "op" THEN 1 ELSE 0)

\* C32: an execution yields an ExprValue of an ExprValueSeq its operator was
\* invoked for, for a combination in which a reusable parameter is bound to
\* another ExprValue than the one the ExprValueSeq was recorded with, the
\* two having the same value
C32_Witness ==
    \E g \in Replaying :
        LET e == gens[g].e
            s == gens[gens[g].it].s
        IN  /\ gens[g].pc = "y_iter"
            /\ seqs[s].src.kind = "op"
            /\ \E p \in Range(ParamPositions(Mach, e, TRUE)) :
                  /\ gens[g].b[p] # seqs[s].param_expr_val_map[p]
                  /\ vals[gens[g].b[p]].value = vals[seqs[s].param_expr_val_map[p]].value
            /\ Cardinality(CallsFor(e, ReusableBinding(e, gens[g].b))) = 1

----------------------------------------------------------------------------
(* Non-reusable parameters are computed after the reusable ones *)

\* the consumer execution g has, in its current combination, an ExprValue
\* with a value for every reusable parameter, yielded by the execution of
\* that parameter
ReusableResolved(g) ==
    LET rp == ParamPositions(Mach, gens[g].e, TRUE)
    IN  \A k \in 1..Len(rp) :
            LET v == gens[g].b[rp[k]]
            IN  /\ v # 0
                /\ vals[v].value # NoValue
                /\ v \in Range(Yielded(gens[gens[g].gl[k]]))

\* the executions made for the parameters of the execution g
ExecutionsFor(g) ==
    {h \in ExecFrames : gens[h].cs = Append(gens[g].cs, gens[g].e)}

\* C33: every step that makes an execution for a non-reusable parameter, or
\* invokes the operator of one, is taken while the consumer is computing
\* its non-reusable parameters for a combination that holds, for each of
\* its reusable parameters, an ExprValue with a value that the execution of
\* the parameter had yielded before the step.
C33_NonReusableAfterReusable ==
    [][ /\ \A h \in (DOMAIN gens') \ (DOMAIN gens) :
              (/\ gens'[h].kind = "exec"
               /\ ~OpReusable(exprs[gens'[h].e].op)
               /\ gens'[h].cs # <<>>)
              => \E g \in ExecFrames :
                    /\ gens'[g].pc = "wait_nr"
                    /\ h \in Range(gens'[g].ng)
                    /\ gens'[h].cs = Append(gens[g].cs, gens[g].e)
                    /\ \A p \in Range(ParamPositions(Mach, gens[g].e, TRUE)) :
                          /\ gens'[g].b[p] # 0
                          /\ gens'[g].b[p] \in 1..Len(vals)
                          /\ vals[gens'[g].b[p]].value # NoValue
        /\ \A i \in (Len(calls) + 1)..Len(calls') :
              LET h == seqs'[calls'[i].s].by
              IN  (~OpReusable(exprs[calls'[i].e].op) /\ gens[h].cs # <<>>)
                  => \E g \in ExecFrames :
                        /\ gens[g].pc = "wait_nr"
                        /\ gens[g].ng[gens[g].ni] = h
                        /\ ReusableResolved(g)
      ]_vars

\* C33: an execution that has ended went through two combinations, its
\* reusable parameter having a value in one and NoValue in the other, and
\* one execution only was made for its non-reusable parameter, whose
\* operator was invoked
C33_Witness ==
    \E g \in ExecFrames :
        /\ gens[g].pc = "done"
        /\ ParamPositions(Mach, gens[g].e, FALSE) # <<>>
        /\ Len(gens[g].yl) = 2
        /\ \E v \in Range(Yielded(gens[g])) : IsComputed(v)
        /\ \E v \in Range(Yielded(gens[g])) :
              \E p \in Range(ParamPositions(Mach, gens[g].e, TRUE)) :
                  /\ vals[v].param_expr_val_map[p] # 0
                  /\ vals[vals[v].param_expr_val_map[p]].value = NoValue
        /\ Cardinality({h \in ExecutionsFor(g) : ~OpReusable(exprs[gens[h].e].op)}) = 1
        /\ \E i \in 1..Len(calls) :
              /\ ~OpReusable(exprs[calls[i].e].op)
              /\ seqs[calls[i].s].by \in ExecutionsFor(g)

----------------------------------------------------------------------------
(* The prepared graph is canonical *)

\* the Expressions reachable from the top-level Expressions of the batch
PreparedExprs == UNION {BatchExprs(w) : w \in 1..Len(wrappers)}

\* C34: once the batch is prepared, two Expressions reachable from the
\* prepared top-level Expressions that have the same callable and an equal
\* param_map (the same Expression objects for the same parameters) are the
\* same object, and so are two that have the same structure.
C34_Canonical ==
    phase = "batch" =>
        \A e1 \in PreparedExprs : \A e2 \in PreparedExprs :
            /\ (/\ exprs[e1].op = exprs[e2].op
                /\ ParamMap(exprs, dicts, e1) = ParamMap(exprs, dicts, e2))
               => e1 = e2
            /\ Structure(exprs, dicts, e1) = Structure(exprs, dicts, e2) => e1 = e2

\* C34: a prepared tree in which one Expression is the parameter of two
\* others, two Expression objects of its structure having been given to
\* the pass
C34_Witness ==
    /\ phase = "batch"
    /\ \E w \in 1..Len(wrappers) :
          \E e1 \in BatchExprs(w) : \E e2 \in BatchExprs(w) \ {e1} :
              \E c \in Range(ParamMap(exprs, dicts, e1)) :
                  /\ c \in Range(ParamMap(exprs, dicts, e2))
                  /\ Cardinality({o \in DOMAIN exprs \ PreparedExprs :
                        /\ o <= Len(Graph(scn))
                        /\ Structure(exprs, dicts, o) = Structure(exprs, dicts, c)}) >= 2

----------------------------------------------------------------------------
(* The fatal policies abort the whole call *)

\* the operators _build_expr tries for the parameters of op
CandidatesOf(op) ==
    IF Unresolved(op) THEN {} ELSE {o \in bpool.pool : IsCandidate(o, op)}

\* building op leads back to op
LeadsToItself(op) ==
    IF CandidatesOf(op) = {} THEN FALSE ELSE op \in LedTo(CandidatesOf(op))

\* what build_expr_list gives on the same pool when nothing is fatal
WithoutFatalPolicy ==
    build_expr_list([bpool EXCEPT !.non_produced_handler = "ignore",
                                  !.cycle_handler = "ignore"])

\* C35: a call of build_expr_list that an exception leaves returns no
\* Expression; and an exception leaves it whenever, under the fatal policy
\* for it, building leads to an operator with a required parameter nothing
\* produces (anywhere: as a goal or as one candidate among others), or to
\* an operator that building leads back to.
C35_FatalAborts ==
    phase = "listed" =>
        /\ built.err # "none" => built.exprs = <<>>
        /\ (/\ bpool.non_produced_handler = "raise"
            /\ \E op \in Reached : Unresolved(op))
           => built.err \in {"NoOperatorError", "CycleError"}
        /\ (/\ bpool.cycle_handler = "raise"
            /\ \E op \in Reached : LeadsToItself(op))
           => built.err \in {"NoOperatorError", "CycleError"}
        /\ built.err = "NoOperatorError" => bpool.non_produced_handler = "raise"
        /\ built.err = "CycleError" => bpool.cycle_handler = "raise"

\* C35: the call was left by an exception raised for one candidate of a
\* parameter of the only goal operator, on a pool for which Expressions
\* are returned when nothing is fatal
C35_Witness ==
    /\ phase = "listed"
    /\ built.err # "none"
    /\ Len(ResultOpSeq(bpool)) = 1
    /\ Len(built.path) >= 2
    /\ WithoutFatalPolicy.err = "none"
    /\ WithoutFatalPolicy.exprs # <<>>

\* C35: the call was left by an exception raised for one goal operator,
\* another goal operator taking no parameter
C35_WitnessGoal ==
    /\ phase = "listed"
    /\ built.err # "none"
    /\ Len(built.path) = 1
    /\ \E i \in 1..Len(ResultOpSeq(bpool)) : PrototypeParams(ResultOpSeq(bpool)[i]) = <<>>
    /\ WithoutFatalPolicy.exprs # <<>>

----------------------------------------------------------------------------
(* Optional parameters with candidates that cannot be built *)

\* _build_expr for op, as build_expr_list calls it, or below the operators
\* of op_stack
BuildOf(op, op_stack) ==
    build_expr(op, BuildOpMap(bpool), BuildClsMap(bpool), op_stack,
               bpool.non_produced_handler, bpool.cycle_handler)

\* the optional parameters of op that have candidate producers, none of
\* which gives an Expression when built for op
UnbuildableOptional(op) ==
    {i \in 1..Len(PrototypeParams(op)) :
        LET p == PrototypeParams(op)[i]
        IN  /\ p.optional
            /\ ProducersFor(p) # {}
            /\ \A o \in ProducersFor(p) : BuildOf(o, <<op>>).exprs = <<>>}

\* C36: in every Expression returned, an optional parameter that is not
\* in the param_map of its operator has no candidate producer in the pool;
\* and _build_expr yields no Expression for an operator with an optional
\* parameter that has candidate producers none of which can be built.
C36_OptionalNeedsNoCandidate ==
    phase = "listed" =>
        /\ \A i \in 1..Len(built.exprs) :
              \A n \in Nodes(built.exprs[i]) :
                  \A k \in 1..Len(PrototypeParams(n.op)) :
                      LET p == PrototypeParams(n.op)[k]
                      IN  (\A j \in 1..Len(n.param_map) : n.param_map[j].param # p.param)
                          => p.optional /\ ProducersFor(p) = {}
        /\ \A op \in bpool.pool :
              UnbuildableOptional(op) # {} => BuildOf(op, <<>>).exprs = <<>>

\* C36: under the ignore policies, the candidate for the optional
\* parameter of the goal operator was dropped, its required parameter
\* could be built, and no Expression was returned
C36_Witness ==
    /\ phase = "listed"
    /\ bpool.non_produced_handler = "ignore"
    /\ bpool.cycle_handler = "ignore"
    /\ built.err = "none"
    /\ built.exprs = <<>>
    /\ \E op \in Range(ResultOpSeq(bpool)) :
          /\ UnbuildableOptional(op) # {}
          /\ \A k \in 1..Len(PrototypeParams(op)) :
                LET p == PrototypeParams(op)[k]
                IN  ~p.optional =>
                        \E o \in ProducersFor(p) : BuildOf(o, <<op>>).exprs # <<>>

----------------------------------------------------------------------------
(* No operator is its own transitive parameter *)

\* no operator occurs twice on a path from expr to a leaf, op_stack being
\* the operators above expr
RECURSIVE NoOperatorTwice(_, _)
NoOperatorTwice(expr, op_stack) ==
    /\ expr.op \notin Range(op_stack)
    /\ \A i \in 1..Len(expr.param_map) :
          NoOperatorTwice(expr.param_map[i].expr, <<expr.op>> \o op_stack)

\* C37: whatever the handlers, no Expression build_expr_list returns has
\* an operator twice on a path from its root to a leaf.
C37_NoOperatorTwiceOnPath ==
    phase = "listed" =>
        \A i \in 1..Len(built.exprs) : NoOperatorTwice(built.exprs[i], <<>>)

\* C37: a cycle was found below a goal operator and handed to the handler,
\* and an Expression of that goal operator, with a parameter, was returned
C37_Witness ==
    /\ phase = "listed"
    /\ CycleCalls # <<>>
    /\ \E i \in 1..Len(built.exprs) :
          /\ built.exprs[i].param_map # <<>>
          /\ built.exprs[i].op = CycleCalls[1].ops[Len(CycleCalls[1].ops)]

\* C37: an Expression returned has the same operator in two sibling
\* branches
C37_WitnessSiblings ==
    /\ phase = "listed"
    /\ \E i \in 1..Len(built.exprs) :
          /\ Len(built.exprs[i].param_map) = 2
          /\ built.exprs[i].param_map[1].expr.op = built.exprs[i].param_map[2].expr.op

----------------------------------------------------------------------------
(* The recursion of _build_expr is bounded *)

\* the largest element of a non-empty set of numbers
Max(S) == CHOOSE x \in S : \A y \in S : y <= x

\* the number of calls of _build_expr that are under way at the deepest
\* point of the call for op below op_stack, no exception being raised:
\* the call runs the generators of the operators of every op_combi
RECURSIVE build_expr_depth(_, _, _, _)
build_expr_depth(op, op_map, cls_map, op_stack) ==
    LET new_op_stack == <<op>> \o op_stack
        param_map == PrototypeParams(op)
        cls_combis == [i \in 1..Len(param_map) |-> cls_map[param_map[i].cls]]
        required == {i \in 1..Len(param_map) :
                        cls_combis[i] = <<>> /\ ~IsOptional(param_map[i])}
        \* the operators of op_combis, for every cls_combi
        param_ops == UNION {Range(op_map[cls]) :
                        cls \in UNION {Range(cls_combis[i]) : i \in 1..Len(param_map)}}
    IN  IF in_op_stack(op, op_stack) \/ required # {} \/ param_ops = {}
        THEN 1
        ELSE 1 + Max({build_expr_depth(param_op, op_map, cls_map, new_op_stack) :
                         param_op \in param_ops})

\* C38: under the ignore and callback policies build_expr_list returns, on
\* every pool, cyclic or not, and no call of _build_expr is ever more than
\* (number of operators of the pool) + 1 deep: neither the calls a handler
\* is called from, nor the deepest call made for a goal operator.
C38_BoundedRecursion ==
    phase = "listed" =>
        /\ \A i \in 1..Len(built.handled) :
              Len(built.handled[i].ops) <= Cardinality(bpool.pool) + 1
        /\ ("raise" \notin {bpool.non_produced_handler, bpool.cycle_handler}) =>
              /\ built.err = "none"
              /\ \A op \in Range(ResultOpSeq(bpool)) :
                    build_expr_depth(op, BuildOpMap(bpool), BuildClsMap(bpool), <<>>)
                    <= Cardinality(bpool.pool) + 1

\* C38: on a pool with a cyclic dependency and under the callback policy,
\* build_expr_list has returned after a call of _build_expr that was
\* (number of operators of the pool) + 1 deep, from which the handler was
\* called
C38_Witness ==
    /\ phase = "listed"
    /\ bpool.cycle_handler = "callback"
    /\ bpool.non_produced_handler = "ignore"
    /\ built.err = "none"
    /\ \E i \in 1..Len(CycleCalls) :
          Len(CycleCalls[i].ops) = Cardinality(bpool.pool) + 1
    /\ \E op \in Range(ResultOpSeq(bpool)) :
          build_expr_depth(op, BuildOpMap(bpool), BuildClsMap(bpool), <<>>)
          = Cardinality(bpool.pool) + 1

====
